---- MODULE Spec2Model ----
(***************************************************************************)
(* Model of the GPU resource and compute-to-display pipeline of the        *)
(* fractal generator: VulkanApplication::renderFrame and the queue         *)
(* timelines it submits to, TextureManager / MemoryManager image layout    *)
(* transitions, MemoryManager::findMemoryType and the MemoryManager buffer *)
(* registry.                                                               *)
(***************************************************************************)
EXTENDS Integers, Sequences, FiniteSets, TLC

VARIABLES
    \* ---- VulkanApplication (render loop) and the device queues ----
    pc,                 \* position of the CPU thread
    splitQueues,        \* compute queue handle differs from the graphics queue handle
    m_fractalPipelineReady, \* ComputePipeline::m_fractalPipelineReady
    m_textureReady,     \* TextureManager::m_textureReady
    m_pipelineReady,    \* GraphicsPipeline::m_pipelineReady
    m_computeCommandBuffer,   \* commands recorded in the shared compute/transfer command buffer
    m_graphicsCommandBuffers, \* commands recorded in each per-swapchain-image command buffer
    imageIndex,         \* swapchain image acquired by the current frame
    queues,             \* per queue: commands submitted and not yet retired, in submission order
    imageLayout,        \* layout of the fractal image: new layout of the last barrier executed
    steps,              \* steps the current renderFrame call has performed so far
    frameCount,         \* static frameCount of renderFrame: frames that ran to completion
    lastFrame,          \* how the most recent renderFrame call returned
    m_isRunning,        \* VulkanApplication::m_isRunning
    destroyed,          \* what ~VulkanApplication has destroyed so far, in order
    \* ---- layout-transition requests ----
    lt_cmd,             \* command buffer a transition request records into
    lt_req,             \* the last transition request and its outcome
    \* ---- findMemoryType ----
    fm_types,           \* m_memoryProperties.memoryTypes[0..memoryTypeCount-1].propertyFlags
    fm_filter,          \* typeFilter
    fm_props,           \* properties
    fm_result,          \* what the call did
    \* ---- MemoryManager buffer registry ----
    m_buffers,          \* name -> BufferInfo
    m_totalAllocatedMemory,
    devBuffers,         \* live VkBuffer handles
    devMemory,          \* live VkDeviceMemory handles -> [size, mapped, data]
    call,               \* the last MemoryManager call and its outcome
    \* ---- uploads and downloads ----
    stagingCount,       \* static stagingCount of createStagingBuffer
    devRequirements,    \* VkBuffer handle -> memory type bits it reports, memory type bound
    \* ---- ComputePipeline ----
    m_fractalImageWidth,
    m_fractalImageHeight,
    m_fractalParameterBuffer,
    m_fractalOutputBuffer,
    m_shaders,          \* ShaderManager: names of the shaders loaded
    managed,            \* the pipeline's MemoryManager: name -> buffer created through it
    pcall,              \* the last ComputePipeline call and its outcome
    \* ---- the fractal compute shader ----
    mappedParameters,   \* FractalParameters held by the mapped parameter buffer
    outputWrites,       \* the last dispatch executed: parameters it read, writes it made
    scall,              \* the last getFractalData call and its outcome
    \* ---- TextureManager ----
    memoryManagerBuild, \* TRUE: createFractalTexture goes through MemoryManager::createImage
    m_textureImage,
    m_textureMemory,
    m_textureImageView,
    m_textureSampler,
    devObjects,         \* handle -> the image, memory, view or sampler the device made
    tcall,              \* the last TextureManager call and its outcome
    \* ---- ShaderManager hot reload ----
    m_hotReloadShaders, \* name -> lastModTime of the watched file
    shaderFiles,        \* the file system: name -> [modTime, state] of the shader's file
    moduleOf,           \* cached name -> the file version its module was compiled from
    rcall,              \* the last ShaderManager call and its outcome
    \* ---- teardown ----
    gpuDestroyed        \* GPU object -> number of vkDestroy*/vkFree* calls made on it

frameVars == <<pc, splitQueues, m_fractalPipelineReady, m_textureReady, m_pipelineReady,
               m_computeCommandBuffer, m_graphicsCommandBuffers, imageIndex, queues,
               imageLayout, steps, frameCount, lastFrame, m_isRunning, destroyed>>
layoutVars == <<lt_cmd, lt_req>>
findVars == <<fm_types, fm_filter, fm_props, fm_result>>
memVars == <<m_buffers, m_totalAllocatedMemory, devBuffers, devMemory, call>>
xferVars == <<stagingCount, devRequirements>>
pipeVars == <<m_fractalImageWidth, m_fractalImageHeight, m_fractalParameterBuffer,
              m_fractalOutputBuffer, m_shaders, managed, pcall>>
shaderVars == <<mappedParameters, outputWrites, scall>>
textureVars == <<memoryManagerBuild, m_textureImage, m_textureMemory, m_textureImageView,
                 m_textureSampler, devObjects, tcall>>
reloadVars == <<m_hotReloadShaders, shaderFiles, moduleOf, rcall>>
teardownVars == <<gpuDestroyed>>
vars == <<frameVars, layoutVars, findVars, memVars, xferVars, pipeVars, shaderVars,
          textureVars, reloadVars, teardownVars>>

(***************************************************************************)
(* Bounds of the model.                                                    *)
(***************************************************************************)
MaxFrames == 2
MaxImages == 2
MaxCmds == 3
MaxTypes == 2
MaxHandles == 2

(***************************************************************************)
(* Image layouts and pipeline stages.                                      *)
(***************************************************************************)
LAYOUT_UNDEFINED == "UNDEFINED"
LAYOUT_GENERAL == "GENERAL"
LAYOUT_TRANSFER_DST == "TRANSFER_DST_OPTIMAL"
LAYOUT_SHADER_READ_ONLY == "SHADER_READ_ONLY_OPTIMAL"
Layouts == {LAYOUT_UNDEFINED, LAYOUT_GENERAL, LAYOUT_TRANSFER_DST, LAYOUT_SHADER_READ_ONLY}

STAGE_TOP_OF_PIPE == "TOP_OF_PIPE"
STAGE_TRANSFER == "TRANSFER"
STAGE_FRAGMENT_SHADER == "FRAGMENT_SHADER"
STAGE_COMPUTE_SHADER == "COMPUTE_SHADER"

\* A recorded command.  Action commands carry the stage they execute in.
Barrier(old, new, src, dst) ==
    [kind |-> "barrier", old |-> old, new |-> new, src |-> src, dst |-> dst]
ActionCmd(kind, stage) ==
    [kind |-> kind, old |-> "-", new |-> "-", src |-> stage, dst |-> stage]

(***************************************************************************)
(* TextureManager::transitionTextureLayout: the barrier is recorded only   *)
(* for the two supported pairs; any other pair logs and returns.           *)
(***************************************************************************)
transitionTextureLayout_NoCheck(commandBuffer, oldLayout, newLayout) ==
    [cmds |-> Append(commandBuffer,
                     Barrier(oldLayout, newLayout, STAGE_TOP_OF_PIPE, STAGE_TRANSFER)),
     outcome |-> "returned"]

transitionTextureLayout(commandBuffer, oldLayout, newLayout) ==
    IF oldLayout = LAYOUT_UNDEFINED /\ newLayout = LAYOUT_TRANSFER_DST
    THEN [cmds |-> Append(commandBuffer,
                          Barrier(oldLayout, newLayout, STAGE_TOP_OF_PIPE, STAGE_TRANSFER)),
          outcome |-> "returned"]
    ELSE IF oldLayout = LAYOUT_TRANSFER_DST /\ newLayout = LAYOUT_SHADER_READ_ONLY
    THEN [cmds |-> Append(commandBuffer,
                          Barrier(oldLayout, newLayout, STAGE_TRANSFER, STAGE_FRAGMENT_SHADER)),
          outcome |-> "returned"]
    ELSE [cmds |-> commandBuffer, outcome |-> "returned"]

(***************************************************************************)
(* MemoryManager::transitionImageLayout: same table, but an unsupported    *)
(* pair throws std::invalid_argument.                                      *)
(***************************************************************************)
transitionImageLayout(commandBuffer, oldLayout, newLayout) ==
    IF oldLayout = LAYOUT_UNDEFINED /\ newLayout = LAYOUT_TRANSFER_DST
    THEN [cmds |-> Append(commandBuffer,
                          Barrier(oldLayout, newLayout, STAGE_TOP_OF_PIPE, STAGE_TRANSFER)),
          outcome |-> "returned"]
    ELSE IF oldLayout = LAYOUT_TRANSFER_DST /\ newLayout = LAYOUT_SHADER_READ_ONLY
    THEN [cmds |-> Append(commandBuffer,
                          Barrier(oldLayout, newLayout, STAGE_TRANSFER, STAGE_FRAGMENT_SHADER)),
          outcome |-> "returned"]
    ELSE [cmds |-> commandBuffer, outcome |-> "threw"]

(***************************************************************************)
(* TextureManager::copyBufferToTexture: the copy, then the transition to   *)
(* shader-read-only recorded by the same call.                             *)
(***************************************************************************)
copyBufferToTexture(commandBuffer) ==
    transitionTextureLayout(Append(commandBuffer, ActionCmd("copy", STAGE_TRANSFER)),
                            LAYOUT_TRANSFER_DST, LAYOUT_SHADER_READ_ONLY).cmds

(***************************************************************************)
(* ComputePipeline::dispatchFractalCompute: records the dispatch only on a *)
(* ready pipeline.                                                         *)
(***************************************************************************)
dispatchFractalCompute_NoGate(commandBuffer) ==
    Append(commandBuffer, ActionCmd("dispatch", STAGE_COMPUTE_SHADER))

dispatchFractalCompute(commandBuffer) ==
    IF ~m_fractalPipelineReady
    THEN commandBuffer
    ELSE Append(commandBuffer, ActionCmd("dispatch", STAGE_COMPUTE_SHADER))

\* GraphicsPipeline::renderFractal between beginRenderPass and endRenderPass
renderFractal(commandBuffer) ==
    Append(commandBuffer, ActionCmd("draw", STAGE_FRAGMENT_SHADER))

(***************************************************************************)
(* Queues.  VulkanSetup retrieves queue 0 of the graphics family and queue *)
(* 0 of the compute family; they are one queue when findQueueFamilies      *)
(* picked the same family for both.                                        *)
(***************************************************************************)
QueueNames == {"graphics", "compute"}
getGraphicsQueue == "graphics"
getComputeQueue == IF splitQueues THEN "compute" ELSE "graphics"

\* vkQueueSubmit: the command buffer's commands join the queue, none started.
InFlight(cmds, cb) ==
    [i \in 1..Len(cmds) |->
        [kind |-> cmds[i].kind, old |-> cmds[i].old, new |-> cmds[i].new,
         src |-> cmds[i].src, dst |-> cmds[i].dst, active |-> FALSE, cb |-> cb]]

vkQueueSubmit(q, cmds, cb) ==
    queues' = [queues EXCEPT ![q] = queues[q] \o InFlight(cmds, cb)]

\* vkQueueWaitIdle returns once everything submitted to the queue has retired.
QueueIdle(q) == queues[q] = <<>>

RemoveAt(s, i) == [j \in 1..(Len(s) - 1) |-> IF j < i THEN s[j] ELSE s[j + 1]]

(***************************************************************************)
(* VulkanApplication::run and VulkanApplication::renderFrame, one action   *)
(* per stretch of CPU code between two points where the device can make    *)
(* progress on its own.                                                    *)
(***************************************************************************)
\* renderFrame returns to run(), whose while (m_isRunning) then repeats or ends
Return(how) ==
    /\ pc' = IF m_isRunning THEN "loop" ELSE "stopped"
    /\ lastFrame' = how

Step(name) == steps' = Append(steps, name)

\* run(): processEvents clears m_isRunning when the window should close; updateApplication
\* and renderFrame run in either case, the loop condition is read after the frame
ProcessEvents ==
    /\ pc = "loop"
    /\ \E shouldClose \in BOOLEAN :
          /\ ~shouldClose => frameCount < MaxFrames
          /\ m_isRunning' = IF shouldClose THEN FALSE ELSE m_isRunning
    /\ pc' = "frame"
    /\ steps' = <<>>
    /\ UNCHANGED <<destroyed, splitQueues, m_fractalPipelineReady, m_textureReady, m_pipelineReady,
                   m_computeCommandBuffer, m_graphicsCommandBuffers, imageIndex, queues,
                   imageLayout, frameCount, lastFrame>>

\* renderFrame: the pipeline gate, then updateFractalParameters writes the mapped buffer
UpdateParameters ==
    /\ pc = "frame"
    /\ IF ~m_fractalPipelineReady
       THEN Return("not_ready") /\ UNCHANGED steps
       ELSE /\ Step("params")
            /\ pc' = "record_compute"
            /\ UNCHANGED lastFrame
    /\ UNCHANGED <<m_isRunning, destroyed, splitQueues, m_fractalPipelineReady, m_textureReady, m_pipelineReady,
                   m_computeCommandBuffer, m_graphicsCommandBuffers, imageIndex, queues,
                   imageLayout, frameCount>>

\* vkBeginCommandBuffer .. dispatchFractalCompute .. vkEndCommandBuffer
RecordCompute ==
    /\ pc = "record_compute"
    /\ m_computeCommandBuffer' = dispatchFractalCompute(<<>>)
    /\ Step("compute_record")
    /\ pc' = "submit_compute"
    /\ UNCHANGED <<m_isRunning, destroyed, splitQueues, m_fractalPipelineReady, m_textureReady, m_pipelineReady,
                   m_graphicsCommandBuffers, imageIndex, queues, imageLayout, frameCount,
                   lastFrame>>

AfterComputeSubmit_M == "check_texture"

AfterComputeSubmit == "wait_compute"

SubmitCompute ==
    /\ pc = "submit_compute"
    /\ \E result \in {"VK_SUCCESS", "VK_ERROR"} :
          IF result # "VK_SUCCESS"
          THEN Return("compute_submit_failed") /\ UNCHANGED <<steps, queues>>
          ELSE /\ vkQueueSubmit(getComputeQueue, m_computeCommandBuffer, "compute")
               /\ Step("compute_submit")
               /\ pc' = AfterComputeSubmit
               /\ UNCHANGED lastFrame
    /\ UNCHANGED <<m_isRunning, destroyed, splitQueues, m_fractalPipelineReady, m_textureReady, m_pipelineReady,
                   m_computeCommandBuffer, m_graphicsCommandBuffers, imageIndex,
                   imageLayout, frameCount>>

ComputeWaitQueue_M == getGraphicsQueue

ComputeWaitQueue == getComputeQueue

\* vkQueueWaitIdle(getComputeQueue())
WaitComputeIdle ==
    /\ pc = "wait_compute"
    /\ QueueIdle(ComputeWaitQueue)
    /\ Step("compute_idle")
    /\ pc' = "check_texture"
    /\ UNCHANGED <<m_isRunning, destroyed, splitQueues, m_fractalPipelineReady, m_textureReady, m_pipelineReady,
                   m_computeCommandBuffer, m_graphicsCommandBuffers, imageIndex, queues,
                   imageLayout, frameCount, lastFrame>>

\* the texture gate, then the transfer command buffer is recorded
RecordCopy ==
    /\ pc = "check_texture"
    /\ IF ~m_textureReady
       THEN Return("texture_not_ready") /\ UNCHANGED <<steps, m_computeCommandBuffer>>
       ELSE /\ m_computeCommandBuffer' =
                   transitionTextureLayout(
                       copyBufferToTexture(
                           transitionTextureLayout(<<>>, LAYOUT_UNDEFINED,
                                                   LAYOUT_TRANSFER_DST).cmds),
                       LAYOUT_TRANSFER_DST, LAYOUT_SHADER_READ_ONLY).cmds
            /\ Step("copy_record")
            /\ pc' = "submit_copy"
            /\ UNCHANGED lastFrame
    /\ UNCHANGED <<m_isRunning, destroyed, splitQueues, m_fractalPipelineReady, m_textureReady, m_pipelineReady,
                   m_graphicsCommandBuffers, imageIndex, queues, imageLayout, frameCount>>

CopySubmitFailed_Continue == pc' = "wait_copy" /\ UNCHANGED lastFrame

\* "Failed to submit texture copy commands": renderFrame returns
CopySubmitFailed == Return("copy_submit_failed")

SubmitCopy ==
    /\ pc = "submit_copy"
    /\ \E copyResult \in {"VK_SUCCESS", "VK_ERROR"} :
          IF copyResult # "VK_SUCCESS"
          THEN CopySubmitFailed /\ UNCHANGED <<steps, queues>>
          ELSE /\ vkQueueSubmit(getGraphicsQueue, m_computeCommandBuffer, "compute")
               /\ Step("copy_submit")
               /\ pc' = "wait_copy"
               /\ UNCHANGED lastFrame
    /\ UNCHANGED <<m_isRunning, destroyed, splitQueues, m_fractalPipelineReady, m_textureReady, m_pipelineReady,
                   m_computeCommandBuffer, m_graphicsCommandBuffers, imageIndex,
                   imageLayout, frameCount>>

CopyWaitQueue_Compute == getComputeQueue

\* the queue renderFrame waits on after submitting the copy
CopyWaitQueue == getGraphicsQueue

\* vkQueueWaitIdle(getGraphicsQueue()) after the copy
WaitCopyIdle ==
    /\ pc = "wait_copy"
    /\ QueueIdle(CopyWaitQueue)
    /\ Step("copy_idle")
    /\ pc' = "acquire"
    /\ UNCHANGED <<m_isRunning, destroyed, splitQueues, m_fractalPipelineReady, m_textureReady, m_pipelineReady,
                   m_computeCommandBuffer, m_graphicsCommandBuffers, imageIndex, queues,
                   imageLayout, frameCount, lastFrame>>

\* the graphics gate, then SwapchainManager::acquireNextImage
AcquireImage ==
    /\ pc = "acquire"
    /\ IF ~m_pipelineReady
       THEN Return("graphics_not_ready") /\ UNCHANGED <<steps, imageIndex>>
       ELSE \E acquireResult \in {"VK_SUCCESS", "VK_SUBOPTIMAL_KHR",
                                  "VK_ERROR_OUT_OF_DATE_KHR", "VK_ERROR"} :
               IF acquireResult \in {"VK_SUCCESS", "VK_SUBOPTIMAL_KHR"}
               THEN /\ \E i \in 1..MaxImages : imageIndex' = i
                    /\ Step("acquire")
                    /\ pc' = "record_draw"
                    /\ UNCHANGED lastFrame
               ELSE Return("acquire_failed") /\ UNCHANGED <<steps, imageIndex>>
    /\ UNCHANGED <<m_isRunning, destroyed, splitQueues, m_fractalPipelineReady, m_textureReady, m_pipelineReady,
                   m_computeCommandBuffer, m_graphicsCommandBuffers, queues, imageLayout,
                   frameCount>>

\* vkBeginCommandBuffer .. beginRenderPass, renderFractal, endRenderPass .. vkEndCommandBuffer
RecordDraw ==
    /\ pc = "record_draw"
    /\ m_graphicsCommandBuffers' =
           [m_graphicsCommandBuffers EXCEPT ![imageIndex] = renderFractal(<<>>)]
    /\ Step("draw_record")
    /\ pc' = "submit_draw"
    /\ UNCHANGED <<m_isRunning, destroyed, splitQueues, m_fractalPipelineReady, m_textureReady, m_pipelineReady,
                   m_computeCommandBuffer, imageIndex, queues, imageLayout, frameCount,
                   lastFrame>>

SubmitDraw ==
    /\ pc = "submit_draw"
    /\ \E submitResult \in {"VK_SUCCESS", "VK_ERROR"} :
          IF submitResult # "VK_SUCCESS"
          THEN Return("draw_submit_failed") /\ UNCHANGED <<steps, queues>>
          ELSE /\ vkQueueSubmit(getGraphicsQueue, m_graphicsCommandBuffers[imageIndex],
                                imageIndex)
               /\ Step("draw_submit")
               /\ pc' = "present"
               /\ UNCHANGED lastFrame
    /\ UNCHANGED <<m_isRunning, destroyed, splitQueues, m_fractalPipelineReady, m_textureReady, m_pipelineReady,
                   m_computeCommandBuffer, m_graphicsCommandBuffers, imageIndex,
                   imageLayout, frameCount>>

\* SwapchainManager::presentImage; only a hard error returns early
PresentImage ==
    /\ pc = "present"
    /\ \E presentResult \in {"VK_SUCCESS", "VK_SUBOPTIMAL_KHR",
                             "VK_ERROR_OUT_OF_DATE_KHR", "VK_ERROR"} :
          IF presentResult = "VK_ERROR"
          THEN Return("present_failed") /\ UNCHANGED steps
          ELSE /\ Step("present")
               /\ pc' = "wait_graphics"
               /\ UNCHANGED lastFrame
    /\ UNCHANGED <<m_isRunning, destroyed, splitQueues, m_fractalPipelineReady, m_textureReady, m_pipelineReady,
                   m_computeCommandBuffer, m_graphicsCommandBuffers, imageIndex, queues,
                   imageLayout, frameCount>>

\* vkQueueWaitIdle(getGraphicsQueue()) at the end of the frame, then frameCount++
WaitGraphicsIdle ==
    /\ pc = "wait_graphics"
    /\ QueueIdle(getGraphicsQueue)
    /\ Step("graphics_idle")
    /\ frameCount' = frameCount + 1
    /\ Return("completed")
    /\ UNCHANGED <<m_isRunning, destroyed, splitQueues, m_fractalPipelineReady, m_textureReady, m_pipelineReady,
                   m_computeCommandBuffer, m_graphicsCommandBuffers, imageIndex, queues,
                   imageLayout>>

(***************************************************************************)
(* The device.  Commands of one queue may overlap unless a barrier orders  *)
(* them: a barrier waits for the earlier commands of its source stage and  *)
(* holds back the later commands of its destination stage; layout          *)
(* transitions happen in submission order.  Nothing orders two queues.     *)
(***************************************************************************)
CanStart(q, i) ==
    /\ queues[q][i].kind # "barrier"
    /\ ~queues[q][i].active
    /\ \A j \in 1..(i - 1) :
          ~(queues[q][j].kind = "barrier" /\ queues[q][j].dst = queues[q][i].src)

CanExecuteBarrier(q, i) ==
    /\ queues[q][i].kind = "barrier"
    /\ \A j \in 1..(i - 1) :
          /\ queues[q][j].kind # "barrier"
          /\ queues[q][j].src # queues[q][i].src

GpuStart ==
    /\ \E q \in QueueNames : \E i \in 1..Len(queues[q]) :
          /\ CanStart(q, i)
          /\ queues' = [queues EXCEPT ![q][i].active = TRUE]
    /\ UNCHANGED <<m_isRunning, destroyed, pc, splitQueues, m_fractalPipelineReady, m_textureReady,
                   m_pipelineReady, m_computeCommandBuffer, m_graphicsCommandBuffers,
                   imageIndex, imageLayout, steps, frameCount, lastFrame>>

GpuFinish ==
    /\ \E q \in QueueNames : \E i \in 1..Len(queues[q]) :
          /\ queues[q][i].active
          /\ queues' = [queues EXCEPT ![q] = RemoveAt(queues[q], i)]
    /\ UNCHANGED <<m_isRunning, destroyed, pc, splitQueues, m_fractalPipelineReady, m_textureReady,
                   m_pipelineReady, m_computeCommandBuffer, m_graphicsCommandBuffers,
                   imageIndex, imageLayout, steps, frameCount, lastFrame>>

GpuBarrier ==
    /\ \E q \in QueueNames : \E i \in 1..Len(queues[q]) :
          /\ CanExecuteBarrier(q, i)
          /\ imageLayout' = queues[q][i].new
          /\ queues' = [queues EXCEPT ![q] = RemoveAt(queues[q], i)]
    /\ UNCHANGED <<m_isRunning, destroyed, pc, splitQueues, m_fractalPipelineReady, m_textureReady,
                   m_pipelineReady, m_computeCommandBuffer, m_graphicsCommandBuffers,
                   imageIndex, steps, frameCount, lastFrame>>

(***************************************************************************)
(* Setup and teardown.  initializeSubsystems creates the subsystems and    *)
(* the two command pools in CreationOrder; ~VulkanApplication, which runs  *)
(* when main leaves the scope of the application object after run() has    *)
(* returned, destroys them in DestructionOrder.  The only wait for the     *)
(* device is the vkDeviceWaitIdle of ~VulkanSetup.                         *)
(***************************************************************************)
CreationOrder ==
    <<"windowManager", "vulkanSetup", "shaderManager", "memoryManager", "computePipeline",
      "computeCommandPool", "swapchainManager", "graphicsPipeline", "textureManager",
      "graphicsCommandPool">>

DestructionOrder ==
    <<"computeCommandPool", "graphicsCommandPool", "textureManager", "graphicsPipeline",
      "swapchainManager", "computePipeline", "memoryManager", "shaderManager",
      "vulkanSetup", "windowManager">>

Reverse(s) == [i \in 1..Len(s) |-> s[Len(s) + 1 - i]]

IsPrefix(s, t) == Len(s) <= Len(t) /\ \A i \in 1..Len(s) : s[i] = t[i]

DeviceIdle == \A q \in QueueNames : queues[q] = <<>>

\* the shaders in the ShaderManager's cache once initializeSubsystems has returned: the
\* compute pipeline's and the two the graphics pipeline loads
CachedShaders == {"mandelbrot", "fullscreen_vertex", "fractal_display_fragment"}

ShaderModule(name) == "shader module " \o name

\* the GPU objects the destructor of a subsystem passes to vkDestroy* or vkFree*
DestroyedBy(subsystem) ==
    CASE subsystem = "computeCommandPool" -> {"compute command pool"}
      [] subsystem = "graphicsCommandPool" -> {"graphics command pool"}
      [] subsystem = "textureManager" ->
            {"texture sampler", "texture image view", "texture memory", "texture image"}
      [] subsystem = "graphicsPipeline" ->
            {"framebuffers", ShaderModule("fullscreen_vertex"),
             ShaderModule("fractal_display_fragment"), "graphics pipeline",
             "graphics pipeline layout", "graphics descriptor pool",
             "graphics descriptor set layout", "render pass"}
      [] subsystem = "swapchainManager" -> {"swapchain image views", "swapchain"}
      [] subsystem = "computePipeline" ->
            {"compute pipeline", "compute pipeline layout",
             "compute descriptor set layout", "compute descriptor pool"}
      [] subsystem = "memoryManager" ->
            {"buffer fractal_parameters", "memory fractal_parameters",
             "buffer fractal_output", "memory fractal_output"}
      [] subsystem = "shaderManager" -> {ShaderModule(name) : name \in CachedShaders}
      [] subsystem = "vulkanSetup" -> {"device"}
      [] OTHER -> {}

\* destroying an object that pending work still uses, or one that is already destroyed,
\* is invalid: the destructor may go on or the process may die
DestroyOutcomes(subsystem) ==
    IF \/ subsystem \notin {"vulkanSetup", "windowManager"} /\ ~DeviceIdle
       \/ DestroyedBy(subsystem) \cap DOMAIN gpuDestroyed # {}
    THEN {"stopped", "crashed"}
    ELSE {"stopped"}

\* one destruction of ~VulkanApplication; ~VulkanSetup first blocks in vkDeviceWaitIdle
Teardown ==
    /\ pc = "stopped"
    /\ Len(destroyed) < Len(DestructionOrder)
    /\ \E subsystem \in {DestructionOrder[Len(destroyed) + 1]} :
          /\ subsystem = "vulkanSetup" => DeviceIdle
          /\ destroyed' = Append(destroyed, subsystem)
          /\ gpuDestroyed' =
                 [o \in DOMAIN gpuDestroyed \cup DestroyedBy(subsystem) |->
                     (IF o \in DOMAIN gpuDestroyed THEN gpuDestroyed[o] ELSE 0)
                         + (IF o \in DestroyedBy(subsystem) THEN 1 ELSE 0)]
          /\ pc' \in DestroyOutcomes(subsystem)
    /\ UNCHANGED <<m_isRunning, splitQueues, m_fractalPipelineReady, m_textureReady,
                   m_pipelineReady, m_computeCommandBuffer, m_graphicsCommandBuffers,
                   imageIndex, queues, imageLayout, steps, frameCount, lastFrame>>

(***************************************************************************)
(* Specification of the render loop.  The loop starts after                *)
(* initializeSubsystems has returned: it throws unless the compute         *)
(* pipeline, the graphics pipeline and the texture were all created, and   *)
(* the image is created in the undefined layout.                           *)
(***************************************************************************)
LayoutIdle == lt_cmd = <<>> /\ lt_req = [impl |-> "none"]
FindIdle == fm_types = <<>> /\ fm_filter = 0 /\ fm_props = 0 /\ fm_result = [op |-> "none"]
MemIdle ==
    /\ m_buffers = <<>>
    /\ m_totalAllocatedMemory = 0
    /\ devBuffers = {}
    /\ devMemory = <<>>
    /\ call = [op |-> "none"]

XferIdle == stagingCount = 0 /\ devRequirements = <<>>

\* nothing written to the parameter buffer, no dispatch executed, no data asked for
ShaderIdle ==
    /\ mappedParameters = [written |-> FALSE]
    /\ outputWrites = [executed |-> FALSE]
    /\ scall = [op |-> "none"]

VK_NULL_HANDLE == 0

\* a TextureManager as its constructor leaves it, apart from m_textureReady
TextureIdle ==
    /\ memoryManagerBuild = FALSE
    /\ m_textureImage = VK_NULL_HANDLE
    /\ m_textureMemory = VK_NULL_HANDLE
    /\ m_textureImageView = VK_NULL_HANDLE
    /\ m_textureSampler = VK_NULL_HANDLE
    /\ devObjects = <<>>
    /\ tcall = [op |-> "none"]

\* nothing registered for hot reload, no file looked at, nothing destroyed
ReloadIdle ==
    /\ m_hotReloadShaders = <<>>
    /\ shaderFiles = <<>>
    /\ moduleOf = <<>>
    /\ rcall = [op |-> "none"]
    /\ gpuDestroyed = <<>>

\* no ComputePipeline constructed (buffer pointers null)
PipeIdle ==
    /\ m_fractalImageWidth = <<>>
    /\ m_fractalImageHeight = <<>>
    /\ m_fractalParameterBuffer = [buffer |-> 0]
    /\ m_fractalOutputBuffer = [buffer |-> 0]
    /\ m_shaders = {}
    /\ managed = <<>>
    /\ pcall = [op |-> "none"]

FrameInit ==
    /\ pc = "loop"
    /\ m_isRunning = TRUE
    /\ destroyed = <<>>
    /\ splitQueues \in BOOLEAN
    /\ m_fractalPipelineReady = TRUE
    /\ m_textureReady = TRUE
    /\ m_pipelineReady = TRUE
    /\ m_computeCommandBuffer = <<>>
    /\ m_graphicsCommandBuffers = [i \in 1..MaxImages |-> <<>>]
    /\ imageIndex = 1
    /\ queues = [q \in QueueNames |-> <<>>]
    /\ imageLayout = LAYOUT_UNDEFINED
    /\ steps = <<>>
    /\ frameCount = 0
    /\ lastFrame = "none"

Init == FrameInit /\ LayoutIdle /\ ShaderIdle /\ TextureIdle /\ ReloadIdle /\ FindIdle /\ MemIdle /\ XferIdle /\ PipeIdle

FrameOnly == UNCHANGED <<layoutVars, findVars, memVars, xferVars, pipeVars, shaderVars, textureVars, reloadVars, teardownVars>>

TeardownOnly ==
    UNCHANGED <<layoutVars, findVars, memVars, xferVars, pipeVars, shaderVars, textureVars,
                reloadVars>>

Next ==
    \/ ProcessEvents /\ FrameOnly
    \/ UpdateParameters /\ FrameOnly
    \/ RecordCompute /\ FrameOnly
    \/ SubmitCompute /\ FrameOnly
    \/ WaitComputeIdle /\ FrameOnly
    \/ RecordCopy /\ FrameOnly
    \/ SubmitCopy /\ FrameOnly
    \/ WaitCopyIdle /\ FrameOnly
    \/ AcquireImage /\ FrameOnly
    \/ RecordDraw /\ FrameOnly
    \/ SubmitDraw /\ FrameOnly
    \/ PresentImage /\ FrameOnly
    \/ WaitGraphicsIdle /\ FrameOnly
    \/ GpuStart /\ FrameOnly
    \/ GpuFinish /\ FrameOnly
    \/ GpuBarrier /\ FrameOnly
    \/ Teardown /\ TeardownOnly

Spec == Init /\ [][Next]_vars

(***************************************************************************)
(* Properties of the render loop.                                          *)
(***************************************************************************)
Executing(kind) ==
    \E q \in QueueNames : \E i \in 1..Len(queues[q]) :
        queues[q][i].kind = kind /\ queues[q][i].active

Submitted(kind) ==
    \E q \in QueueNames : \E i \in 1..Len(queues[q]) : queues[q][i].kind = kind

\* C1: every buffer-to-image copy executes while the fractal image's current layout is
\* transfer-destination, and every draw that samples the image executes while its
\* current layout is shader-read-only, across any number of frames.
C1_LayoutMatchesOperation ==
    /\ Executing("copy") => imageLayout = LAYOUT_TRANSFER_DST
    /\ Executing("draw") => imageLayout = LAYOUT_SHADER_READ_ONLY

C5_NoConcurrentAccess ==
    /\ ~(Executing("dispatch") /\ Executing("copy"))
    /\ ~(Executing("copy") /\ Executing("draw"))

\* C6: whenever the CPU writes the persistently mapped parameter buffer, no dispatch
\* that reads it is pending or executing, on every path through the preceding frames.
C6_ParameterWriteNotInFlight ==
    pc \in {"frame", "record_compute"} => ~Submitted("dispatch")

C6_Witness ==
    /\ pc = "record_compute"
    /\ steps = <<"params">>
    /\ lastFrame = "present_failed"
    /\ queues[getGraphicsQueue] # <<>>

\* the layout the image has before command i of a recorded sequence that starts with the
\* image in layout start: the new layout of the latest barrier recorded before i
RECURSIVE LayoutBefore(_, _, _)
LayoutBefore(cmds, i, start) ==
    IF i <= 1 THEN start
    ELSE IF cmds[i - 1].kind = "barrier" THEN cmds[i - 1].new
    ELSE LayoutBefore(cmds, i - 1, start)

BarriersTrackLayout(cmds, start) ==
    \A i \in 1..Len(cmds) :
        (cmds[i].kind = "barrier" /\ cmds[i].old # LAYOUT_UNDEFINED) =>
            cmds[i].old = LayoutBefore(cmds, i, start)

\* C26: in the transfer command buffer a frame records, every layout barrier names as
\* its old layout the layout the image has at that point of the recorded sequence, an
\* old layout of undefined matching any layout.
C26_BarrierOldLayoutMatches ==
    pc \in {"submit_copy", "wait_copy"} =>
        BarriersTrackLayout(m_computeCommandBuffer, imageLayout)

\* C39: during teardown every GPU object is destroyed at most once: no shader module,
\* buffer, image or pipeline object is destroyed by two owners.
C39_DestroyedAtMostOnce ==
    \A o \in DOMAIN gpuDestroyed : gpuDestroyed[o] <= 1

\* C22: at teardown the subsystems and command pools are destroyed in the exact reverse
\* of the order in which setup created them.
C22_ReverseCreationOrder ==
    IsPrefix(destroyed, Reverse(CreationOrder))

\* C23: the first destruction of teardown happens with the device idle: no work
\* submitted to any queue is pending when the destructor starts destroying, whichever
\* way the render loop ended.
C23_DeviceIdleBeforeDestruction ==
    [][(destroyed = <<>> /\ destroyed' # <<>>) => DeviceIdle]_vars

FrameStepsInOrder ==
    <<"params", "compute_record", "compute_submit", "compute_idle", "copy_record",
      "copy_submit", "copy_idle", "acquire", "draw_record", "draw_submit", "present",
      "graphics_idle">>

DrawPending(i) ==
    \E q \in QueueNames : \E k \in 1..Len(queues[q]) :
        queues[q][k].kind = "draw" /\ queues[q][k].cb = i

\* C31: a swapchain image is handed to presentation only after the draw command buffer
\* that renders into it has retired on the graphics queue.
C31_PresentAfterDrawRetired ==
    [][(pc = "present" /\ pc' = "wait_graphics") => ~DrawPending(imageIndex)]_vars

\* queue families as findQueueFamilies assigns them: one family for graphics and
\* compute when the queue handles are one, two families otherwise
graphicsFamily == 0
computeFamily == IF splitQueues THEN 1 ELSE 0

\* family of the queue vkGetDeviceQueue returned for a queue name
FamilyOfQueue(q) == IF q = "graphics" THEN graphicsFamily ELSE computeFamily

\* family of the command pool a command buffer was allocated from: the compute command
\* pool for the shared compute/transfer buffer, the graphics pool for the draw buffers
FamilyOfPool(cb) == IF cb = "compute" THEN computeFamily ELSE graphicsFamily

\* C32: every command buffer is submitted only to a queue of the queue family of the
\* command pool it was allocated from, whether or not the compute and graphics
\* families differ.
C32_SubmittedToOwnFamily ==
    \A q \in QueueNames : \A k \in 1..Len(queues[q]) :
        FamilyOfPool(queues[q][k].cb) = FamilyOfQueue(q)

\* a submission of the shared compute/transfer command buffer is pending on a queue
ComputeBufferPending ==
    \E q \in QueueNames : \E k \in 1..Len(queues[q]) :
        queues[q][k].kind # "draw" /\ queues[q][k].cb = "compute"

\* C33: no command buffer is begun while a submission of it is still pending: not the
\* shared compute/transfer buffer when the dispatch or the copy is recorded, not the draw
\* buffer of the acquired image when the draw is recorded, whatever way earlier frames
\* returned.
C33_BeginOnlyWhenRetired ==
    /\ pc \in {"record_compute", "check_texture"} => ~ComputeBufferPending
    /\ pc = "record_draw" => ~DrawPending(imageIndex)

\* the draw buffer of the acquired image, recorded in an earlier frame, is about to be
\* begun again after a frame that returned on a failed present without waiting
C33_Witness ==
    /\ pc = "record_draw"
    /\ lastFrame = "present_failed"
    /\ m_graphicsCommandBuffers[imageIndex] # <<>>

\* C27: whenever renderFrame has returned, by whatever path, every queue is idle: no
\* work the call submitted is still pending when the next frame or teardown begins.
C27_ReturnedFrameLeftQueuesIdle ==
    pc \in {"loop", "stopped"} => \A q \in QueueNames : queues[q] = <<>>

(***************************************************************************)
(* Layout-transition requests, made of either implementation with any pair *)
(* of layouts, into a command buffer that is being recorded.               *)
(***************************************************************************)
Request(impl, old, new, r) ==
    [impl |-> impl, old |-> old, new |-> new, outcome |-> r.outcome,
     recorded |-> Len(r.cmds) - Len(lt_cmd)]

LayoutOnly == UNCHANGED <<frameVars, findVars, memVars, xferVars, pipeVars, shaderVars, textureVars, reloadVars, teardownVars>>

RequestTextureTransition ==
    /\ Len(lt_cmd) < MaxCmds
    /\ \E old \in Layouts, new \in Layouts :
          LET r == transitionTextureLayout(lt_cmd, old, new)
          IN  /\ lt_cmd' = r.cmds
              /\ lt_req' = Request("TextureManager", old, new, r)
    /\ LayoutOnly

RequestImageTransition ==
    /\ Len(lt_cmd) < MaxCmds
    /\ \E old \in Layouts, new \in Layouts :
          LET r == transitionImageLayout(lt_cmd, old, new)
          IN  /\ lt_cmd' = r.cmds
              /\ lt_req' = Request("MemoryManager", old, new, r)
    /\ LayoutOnly

FrameIdle ==
    /\ pc = "stopped"
    /\ splitQueues = FALSE
    /\ m_fractalPipelineReady = TRUE
    /\ m_textureReady = TRUE
    /\ m_pipelineReady = TRUE
    /\ m_computeCommandBuffer = <<>>
    /\ m_graphicsCommandBuffers = [i \in 1..MaxImages |-> <<>>]
    /\ imageIndex = 1
    /\ queues = [q \in QueueNames |-> <<>>]
    /\ imageLayout = LAYOUT_UNDEFINED
    /\ steps = <<>>
    /\ frameCount = 0
    /\ lastFrame = "none"
    /\ m_isRunning = FALSE
    /\ destroyed = <<>>

LayoutInit == FrameIdle /\ LayoutIdle /\ ShaderIdle /\ TextureIdle /\ ReloadIdle /\ FindIdle /\ MemIdle /\ XferIdle /\ PipeIdle

LayoutNext == RequestTextureTransition \/ RequestImageTransition

SpecLayout == LayoutInit /\ [][LayoutNext]_vars

SupportedPair(old, new) ==
    \/ old = "UNDEFINED" /\ new = "TRANSFER_DST_OPTIMAL"
    \/ old = "TRANSFER_DST_OPTIMAL" /\ new = "SHADER_READ_ONLY_OPTIMAL"

\* C2: a layout-transition request records a pipeline barrier if and only if (old, new)
\* is (undefined, transfer-destination) or (transfer-destination, shader-read-only);
\* the barrier recorded is the one requested, and any other pair records nothing.
C2_BarrierIffSupported ==
    lt_req.impl # "none" =>
        IF SupportedPair(lt_req.old, lt_req.new)
        THEN /\ lt_req.recorded = 1
             /\ lt_cmd[Len(lt_cmd)].kind = "barrier"
             /\ lt_cmd[Len(lt_cmd)].old = lt_req.old
             /\ lt_cmd[Len(lt_cmd)].new = lt_req.new
        ELSE lt_req.recorded = 0

C2_Witness ==
    /\ lt_req.impl = "TextureManager"
    /\ lt_req.old = "SHADER_READ_ONLY_OPTIMAL"
    /\ lt_req.new = "TRANSFER_DST_OPTIMAL"
    /\ lt_req.recorded = 0
    /\ Len(lt_cmd) = 2

\* C3: whenever a layout transition is requested with an unsupported pair, the caller
\* receives an error; the call never returns normally.
C3_UnsupportedIsReported ==
    (lt_req.impl # "none" /\ ~SupportedPair(lt_req.old, lt_req.new)) =>
        lt_req.outcome = "threw"

(***************************************************************************)
(* TextureManager::copyBufferToTexture called on its own, on a texture     *)
(* that createFractalTexture has or has not made ready.                    *)
(***************************************************************************)
CopyBufferToTexture ==
    /\ Len(lt_cmd) + 2 <= MaxCmds
    /\ \E cmds \in {copyBufferToTexture(lt_cmd)} :
          /\ lt_cmd' = cmds
          /\ lt_req' = [impl |-> "copyBufferToTexture", old |-> "-", new |-> "-",
                        outcome |-> "returned", recorded |-> Len(cmds) - Len(lt_cmd)]
    /\ LayoutOnly

CopyInit ==
    /\ pc = "stopped"
    /\ splitQueues = FALSE
    /\ m_fractalPipelineReady = TRUE
    /\ m_textureReady \in BOOLEAN
    /\ m_pipelineReady = TRUE
    /\ m_computeCommandBuffer = <<>>
    /\ m_graphicsCommandBuffers = [i \in 1..MaxImages |-> <<>>]
    /\ imageIndex = 1
    /\ queues = [q \in QueueNames |-> <<>>]
    /\ imageLayout = LAYOUT_UNDEFINED
    /\ steps = <<>>
    /\ frameCount = 0
    /\ lastFrame = "none"
    /\ m_isRunning = FALSE
    /\ destroyed = <<>>
    /\ LayoutIdle /\ ShaderIdle /\ TextureIdle /\ ReloadIdle /\ FindIdle /\ MemIdle /\ XferIdle /\ PipeIdle

CopyNext == RequestTextureTransition \/ RequestImageTransition \/ CopyBufferToTexture

SpecCopy == CopyInit /\ [][CopyNext]_vars

\* C21: copyBufferToTexture called while the texture is not ready records no command and
\* returns normally.
C21_NotReadyCopyIsNoOp ==
    (lt_req.impl = "copyBufferToTexture" /\ ~m_textureReady) =>
        /\ lt_req.recorded = 0
        /\ lt_req.outcome = "returned"

(***************************************************************************)
(* MemoryManager::findMemoryType.  Property flags are bitmasks over        *)
(* DEVICE_LOCAL, HOST_VISIBLE and HOST_COHERENT; typeFilter is a bitmask   *)
(* with one bit per memory type.                                           *)
(***************************************************************************)
VK_MEMORY_PROPERTY_DEVICE_LOCAL_BIT == 1
VK_MEMORY_PROPERTY_HOST_VISIBLE_BIT == 2
VK_MEMORY_PROPERTY_HOST_COHERENT_BIT == 4
PropertyFlags == 0..(VK_MEMORY_PROPERTY_DEVICE_LOCAL_BIT + VK_MEMORY_PROPERTY_HOST_VISIBLE_BIT
                     + VK_MEMORY_PROPERTY_HOST_COHERENT_BIT)

RECURSIVE Pow2(_)
Pow2(n) == IF n = 0 THEN 1 ELSE 2 * Pow2(n - 1)

\* a & b on unsigned values
RECURSIVE BitAnd(_, _)
BitAnd(a, b) ==
    IF a = 0 \/ b = 0
    THEN 0
    ELSE (a % 2) * (b % 2) + 2 * BitAnd(a \div 2, b \div 2)

\* 1 << i, for i below memoryTypeCount <= VK_MAX_MEMORY_TYPES (32): no bit is shifted out
ShiftLeftOne(i) == Pow2(i)

TypeMatches_IgnoreFilter(types, typeFilter, properties, i) ==
    BitAnd(types[i + 1], properties) = properties

\* the condition of the loop body for memory type i (0-based)
TypeMatches(types, typeFilter, properties, i) ==
    /\ BitAnd(typeFilter, ShiftLeftOne(i)) # 0
    /\ BitAnd(types[i + 1], properties) = properties

\* the loop from index i on: the first match is returned, none throws
RECURSIVE FindFrom(_, _, _, _)
FindFrom(types, typeFilter, properties, i) ==
    IF i >= Len(types)
    THEN [op |-> "findMemoryType", status |-> "threw", index |-> 0]
    ELSE IF TypeMatches(types, typeFilter, properties, i)
         THEN [op |-> "findMemoryType", status |-> "returned", index |-> i]
         ELSE FindFrom(types, typeFilter, properties, i + 1)

FindFromLast(types, typeFilter, properties) ==
    LET hits == {i \in 0..(Len(types) - 1) : TypeMatches(types, typeFilter, properties, i)}
    IN  IF hits = {}
        THEN [op |-> "findMemoryType", status |-> "threw", index |-> 0]
        ELSE [op |-> "findMemoryType", status |-> "returned",
              index |-> CHOOSE i \in hits : \A j \in hits : j <= i]

findMemoryType(types, typeFilter, properties) == FindFrom(types, typeFilter, properties, 0)

MemoryTypeTables == UNION {[1..n -> PropertyFlags] : n \in 0..MaxTypes}

FindInit ==
    /\ fm_types \in MemoryTypeTables
    /\ fm_filter \in 0..(Pow2(MaxTypes + 1) - 1)
    /\ fm_props \in PropertyFlags
    /\ fm_result = [op |-> "none"]
    /\ FrameIdle /\ LayoutIdle /\ ShaderIdle /\ TextureIdle /\ ReloadIdle /\ MemIdle /\ XferIdle /\ PipeIdle

FindOnly == UNCHANGED <<frameVars, layoutVars, memVars, xferVars, pipeVars, shaderVars, textureVars, reloadVars, teardownVars>>

FindCall ==
    /\ fm_result.op = "none"
    /\ fm_result' = findMemoryType(fm_types, fm_filter, fm_props)
    /\ UNCHANGED <<fm_types, fm_filter, fm_props>>
    /\ FindOnly

SpecFind == FindInit /\ [][FindCall]_vars

\* bit b of mask x
HasBit(x, b) == (x \div Pow2(b)) % 2 = 1

FlagBitPositions == 0..2

Qualifies(i) ==
    /\ i \in 0..(Len(fm_types) - 1)
    /\ HasBit(fm_filter, i)
    /\ \A b \in FlagBitPositions : HasBit(fm_props, b) => HasBit(fm_types[i + 1], b)

\* C7: if findMemoryType returns index i, bit i is set in the filter and the flags of
\* type i are a superset of the required flags; if no index of the table satisfies
\* both, findMemoryType fails instead of returning an index.
C7_FindMemoryTypeSound ==
    fm_result.op = "findMemoryType" =>
        /\ fm_result.status = "returned" => Qualifies(fm_result.index)
        /\ (\A i \in 0..(Len(fm_types) - 1) : ~Qualifies(i)) => fm_result.status = "threw"

C7_Witness ==
    /\ fm_result.op = "findMemoryType"
    /\ fm_result.status = "threw"
    /\ Len(fm_types) = 2
    /\ fm_filter = 3
    /\ fm_props = 6
    /\ fm_types = <<1, 2>>

\* C8: when at least one memory type qualifies, findMemoryType returns the lowest
\* index whose bit is set in the filter and whose flags are a superset of the
\* requirement.
C8_FindMemoryTypeLowest ==
    (fm_result.op = "findMemoryType" /\ \E i \in 0..(Len(fm_types) - 1) : Qualifies(i)) =>
        /\ fm_result.status = "returned"
        /\ Qualifies(fm_result.index)
        /\ \A j \in 0..(fm_result.index - 1) : ~Qualifies(j)

C8_Witness ==
    /\ fm_result.op = "findMemoryType"
    /\ fm_result.status = "returned"
    /\ fm_result.index = 1
    /\ fm_types = <<7, 7>>
    /\ fm_filter = 2
    /\ fm_props = 2

(***************************************************************************)
(* MemoryManager's buffer registry.  m_buffers maps a name to its          *)
(* BufferInfo; devBuffers and devMemory are the VkBuffer handles and the   *)
(* VkDeviceMemory allocations alive on the device, whoever holds them.     *)
(* call describes the last operation and what it returned.                 *)
(***************************************************************************)
BufferSizes == {1, 2}
MaxTotal == 3
Names == {"a", "b"}
Handles == 1..MaxHandles
VK_MEMORY_PROPERTY_HOST_CACHED_BIT == 8

\* the table read by vkGetPhysicalDeviceMemoryProperties
m_memoryProperties == fm_types

\* a device with a device-local type and a host-visible, host-coherent type
DiscreteGpuMemoryTypes ==
    <<VK_MEMORY_PROPERTY_DEVICE_LOCAL_BIT,
      VK_MEMORY_PROPERTY_HOST_VISIBLE_BIT + VK_MEMORY_PROPERTY_HOST_COHERENT_BIT>>

MemoryLocations == {"GPU_ONLY", "CPU_TO_GPU", "GPU_TO_CPU"}

memoryLocationToVulkanFlags(location) ==
    CASE location = "GPU_ONLY" -> VK_MEMORY_PROPERTY_DEVICE_LOCAL_BIT
      [] location = "CPU_TO_GPU" ->
            VK_MEMORY_PROPERTY_HOST_VISIBLE_BIT + VK_MEMORY_PROPERTY_HOST_COHERENT_BIT
      [] location = "GPU_TO_CPU" ->
            VK_MEMORY_PROPERTY_HOST_VISIBLE_BIT + VK_MEMORY_PROPERTY_HOST_CACHED_BIT

DeviceCalls == {"none", "vkCreateBuffer", "vkAllocateMemory", "vkBindBufferMemory", "vkMapMemory"}

nullptr == [buffer |-> VK_NULL_HANDLE]

getBuffer_NeverFound(name) == nullptr

getBuffer(name) == IF name \in DOMAIN m_buffers THEN m_buffers[name] ELSE nullptr

\* vkGetBufferMemoryRequirements: the size rounded up to the alignment
MemoryRequirementsSize(size, alignment) == ((size + alignment - 1) \div alignment) * alignment

FreeBufferHandles == Handles \ devBuffers
FreeMemoryHandles == Handles \ DOMAIN devMemory
Lowest(S) == CHOOSE h \in S : \A k \in S : h <= k

Without_KeepAll(f, D) == f

Without(f, D) == [x \in DOMAIN f \ D |-> f[x]]

CallResult(op, name, size, status, error) ==
    [op |-> op, name |-> name, size |-> size, status |-> status, error |-> error]

\* what the device answers during one createBufferExplicit: the memory requirements of
\* the new buffer and the device call, if any, that reports an error
DeviceAnswers ==
    [memoryTypeBits : 1..(Pow2(Len(m_memoryProperties)) - 1), alignment : 1..2,
     failing : DeviceCalls]

\* freshly allocated memory of n bytes
ZeroBytes(n) == [i \in 1..n |-> 0]

\* The effect of createBufferExplicit on the registry and the device when the device
\* answers dev: how the call ends and the values it leaves behind.  A create call of the
\* device also fails when the device has no handle left.
createBufferOutcome(name, size, memoryProperties, persistentMap, dev) ==
    LET memSize == MemoryRequirementsSize(size, dev.alignment)
        found == findMemoryType(m_memoryProperties, dev.memoryTypeBits, memoryProperties)
        outcome(status, error, registry, bufs, mem, total) ==
            [status |-> status, error |-> error, m_buffers |-> registry,
             devBuffers |-> bufs, devMemory |-> mem, m_totalAllocatedMemory |-> total]
        failed(error, bufs, mem, total) ==
            outcome("threw", error, m_buffers, bufs, mem, total)
    IN
    IF getBuffer(name) # nullptr
    THEN failed("duplicate", devBuffers, devMemory, m_totalAllocatedMemory)
    ELSE IF dev.failing = "vkCreateBuffer" \/ FreeBufferHandles = {}
    THEN failed("vkCreateBuffer", devBuffers, devMemory, m_totalAllocatedMemory)
    ELSE
    LET b == Lowest(FreeBufferHandles)
        withBuffer == devBuffers \cup {b}
    IN
    IF found.status = "threw"
    THEN failed("findMemoryType", withBuffer, devMemory, m_totalAllocatedMemory)
    ELSE IF dev.failing = "vkAllocateMemory" \/ FreeMemoryHandles = {}
    THEN failed("vkAllocateMemory", devBuffers, devMemory, m_totalAllocatedMemory)
    ELSE IF dev.failing = "vkBindBufferMemory"
    THEN failed("vkBindBufferMemory", devBuffers, devMemory, m_totalAllocatedMemory)
    ELSE
    LET m == Lowest(FreeMemoryHandles)
        wantMap == /\ persistentMap
                   /\ BitAnd(memoryProperties, VK_MEMORY_PROPERTY_HOST_VISIBLE_BIT) # 0
        allocation == [size |-> memSize, mapped |-> FALSE, data |-> ZeroBytes(memSize)]
        withMemory == devMemory @@ (m :> allocation)
    IN
    IF wantMap /\ dev.failing = "vkMapMemory"
    THEN failed("vkMapMemory", withBuffer, withMemory, m_totalAllocatedMemory + memSize)
    ELSE outcome("returned", "none",
                 m_buffers @@
                     (name :> [buffer |-> b, memory |-> m, size |-> size,
                               mappedData |-> wantMap, persistentlyMapped |-> persistentMap]),
                 withBuffer,
                 devMemory @@ (m :> [allocation EXCEPT !.mapped = wantMap]),
                 m_totalAllocatedMemory + memSize)

\* createBufferExplicit, as reached through createBuffer
createBufferExplicit(name, size, memoryProperties, persistentMap) ==
    \E dev \in IF getBuffer(name) # nullptr
               THEN {CHOOSE d \in DeviceAnswers : TRUE}
               ELSE DeviceAnswers :
        /\ getBuffer(name) = nullptr =>
               m_totalAllocatedMemory + MemoryRequirementsSize(size, dev.alignment) <= MaxTotal
        /\ \E r \in {createBufferOutcome(name, size, memoryProperties, persistentMap, dev)} :
            /\ call' = CallResult("createBuffer", name, size, r.status, r.error)
            /\ m_buffers' = r.m_buffers
            /\ devBuffers' = r.devBuffers
            /\ devMemory' = r.devMemory
            /\ m_totalAllocatedMemory' = r.m_totalAllocatedMemory

createBuffer(name, size, location, persistentMap) ==
    createBufferExplicit(name, size, memoryLocationToVulkanFlags(location), persistentMap)

CreateBuffer ==
    \E name \in Names, size \in BufferSizes, location \in MemoryLocations,
       persistentMap \in BOOLEAN :
        createBuffer(name, size, location, persistentMap)

\* a write through the persistent mapping, as ComputePipeline::updateFractalParameters does
WriteMapped ==
    \E name \in DOMAIN m_buffers, value \in 0..1 :
        /\ m_buffers[name].mappedData
        /\ devMemory' = [devMemory EXCEPT ![m_buffers[name].memory].data[1] = value]
        /\ call' = CallResult("write", name, 0, "returned", "none")
        /\ UNCHANGED <<m_buffers, m_totalAllocatedMemory, devBuffers>>

\* the device calls removeBuffer and clearBuffers make for one buffer, in program order
DestroyCalls(buffer) ==
    (IF buffer.mappedData THEN <<"vkUnmapMemory">> ELSE <<>>)
        \o <<"vkDestroyBuffer", "vkFreeMemory">>

DestroyResult(op, name, result, removed) ==
    [op |-> op, name |-> name, size |-> 0, status |-> "returned", error |-> result,
     calls |-> [n \in removed |-> DestroyCalls(m_buffers[n])]]

RemoveBuffer ==
    \E name \in Names :
        IF name \in DOMAIN m_buffers
        THEN /\ devBuffers' = devBuffers \ {m_buffers[name].buffer}
             /\ devMemory' = Without(devMemory, {m_buffers[name].memory})
             /\ m_totalAllocatedMemory' = m_totalAllocatedMemory - m_buffers[name].size
             /\ m_buffers' = Without(m_buffers, {name})
             /\ call' = DestroyResult("removeBuffer", name, "true", {name})
        ELSE /\ call' = DestroyResult("removeBuffer", name, "false", {})
             /\ UNCHANGED <<m_buffers, m_totalAllocatedMemory, devBuffers, devMemory>>

ClearBuffers ==
    /\ devBuffers' = devBuffers \ {m_buffers[n].buffer : n \in DOMAIN m_buffers}
    /\ devMemory' = Without(devMemory, {m_buffers[n].memory : n \in DOMAIN m_buffers})
    /\ m_buffers' = <<>>
    /\ m_totalAllocatedMemory' = 0
    /\ call' = DestroyResult("clearBuffers", "", "none", DOMAIN m_buffers)

MemInit ==
    /\ FrameIdle /\ LayoutIdle /\ ShaderIdle /\ TextureIdle /\ ReloadIdle /\ MemIdle /\ XferIdle /\ PipeIdle
    /\ fm_types = DiscreteGpuMemoryTypes
    /\ fm_filter = 0
    /\ fm_props = 0
    /\ fm_result = [op |-> "none"]

MemOnly == UNCHANGED <<frameVars, layoutVars, findVars, xferVars, pipeVars, shaderVars, textureVars, reloadVars, teardownVars>>

MemNext ==
    \/ CreateBuffer /\ MemOnly
    \/ WriteMapped /\ MemOnly
    \/ RemoveBuffer /\ MemOnly
    \/ ClearBuffers /\ MemOnly

SpecMem == MemInit /\ [][MemNext]_vars

\* the device-memory allocation sizes of the buffers named in S, added up
RECURSIVE RegisteredAllocation(_)
RegisteredAllocation(S) ==
    IF S = {} THEN 0
    ELSE LET n == CHOOSE x \in S : TRUE
         IN  devMemory[m_buffers[n].memory].size + RegisteredAllocation(S \ {n})

\* C35: after any sequence of successful and failed createBuffer, removeBuffer and clear
\* calls getTotalAllocatedMemory() equals the sum of the device-memory allocation sizes
\* of the registered buffers, so it is 0 whenever the registry is empty, and it is never
\* below zero.
C35_TotalMatchesRegistry ==
    /\ m_totalAllocatedMemory = RegisteredAllocation(DOMAIN m_buffers)
    /\ m_totalAllocatedMemory >= 0

\* C25: removeBuffer(name) returns true exactly when name was registered; afterwards
\* getBuffer(name) yields nothing, every other registered buffer keeps its record, its
\* buffer handle and its memory with the same contents, and a createBuffer with that
\* name that directly follows is not rejected as a duplicate: it registers the name
\* again unless the device reports an error.
C25_RemoveBufferFrame ==
    [][/\ call'.op = "removeBuffer" =>
            /\ call'.error = "true" <=> call'.name \in DOMAIN m_buffers
            /\ call'.name \notin DOMAIN m_buffers'
            /\ \A name \in Names : name = call'.name => getBuffer(name)' = nullptr
            /\ \A other \in DOMAIN m_buffers \ {call'.name} :
                  /\ other \in DOMAIN m_buffers'
                  /\ m_buffers'[other] = m_buffers[other]
                  /\ m_buffers[other].buffer \in devBuffers'
                  /\ m_buffers[other].memory \in DOMAIN devMemory'
                  /\ devMemory'[m_buffers[other].memory] = devMemory[m_buffers[other].memory]
       /\ (call.op = "removeBuffer" /\ call'.op = "createBuffer" /\ call'.name = call.name) =>
            /\ call'.error # "duplicate"
            /\ call'.status = "returned" => call'.name \in DOMAIN m_buffers'
      ]_vars

\* a registered buffer has been removed while another buffer stays registered
C25_Witness ==
    /\ call.op = "removeBuffer"
    /\ call.error = "true"
    /\ DOMAIN m_buffers # {}

\* C9: createBuffer with a name that is already registered fails with the duplicate-name
\* error whatever the other arguments are, creates no GPU object, and leaves the registry,
\* the first buffer's handles, size and contents, and the total-allocated counter as they
\* were.
C9_DuplicateNameRejected ==
    [][(call'.op = "createBuffer" /\ call'.name \in DOMAIN m_buffers) =>
         /\ call'.status = "threw"
         /\ call'.error = "duplicate"
         /\ m_buffers' = m_buffers
         /\ m_totalAllocatedMemory' = m_totalAllocatedMemory
         /\ devBuffers' = devBuffers
         /\ devMemory' = devMemory]_vars

C9_Witness ==
    /\ call.op = "createBuffer"
    /\ call.error = "duplicate"
    /\ call.name \in DOMAIN m_buffers
    /\ call.size # m_buffers[call.name].size
    /\ devMemory[m_buffers[call.name].memory].data[1] = 1

\* C10: whenever createBuffer fails after it has started to allocate (at buffer creation,
\* memory-type selection, allocation, binding or persistent mapping), every handle and
\* allocation that call created is released, the name is not registered, and the
\* total-allocated counter is what it was before the call.
C10_FailedCreateReleasesAll ==
    [][(call'.op = "createBuffer" /\ call'.status = "threw" /\ call'.error # "duplicate") =>
         /\ devBuffers' = devBuffers
         /\ devMemory' = devMemory
         /\ m_buffers' = m_buffers
         /\ m_totalAllocatedMemory' = m_totalAllocatedMemory]_vars

(***************************************************************************)
(* MemoryManager::uploadBufferData and downloadBufferData on one target    *)
(* buffer.  Memory contents are byte sequences; a call ends "returned",    *)
(* "threw", or "crashed" when undefined behaviour takes the process down.  *)
(***************************************************************************)
MaxStaging == 2
TargetName == "a"
Bytes == {0, 1}
ByteStrings == UNION {[1..n -> Bytes] : n \in BufferSizes}
Offsets == {0, 1}
XferLocations == {"GPU_ONLY", "CPU_TO_GPU"}

\* devices: discrete with the device-local type first, discrete with the host-visible
\* type first, and one unified type
HostFirstMemoryTypes ==
    <<VK_MEMORY_PROPERTY_HOST_VISIBLE_BIT + VK_MEMORY_PROPERTY_HOST_COHERENT_BIT,
      VK_MEMORY_PROPERTY_DEVICE_LOCAL_BIT>>
UnifiedMemoryTypes ==
    <<VK_MEMORY_PROPERTY_DEVICE_LOCAL_BIT + VK_MEMORY_PROPERTY_HOST_VISIBLE_BIT
        + VK_MEMORY_PROPERTY_HOST_COHERENT_BIT>>
DeviceMemoryTables == {DiscreteGpuMemoryTypes, HostFirstMemoryTypes, UnifiedMemoryTypes}

HostVisible(flags) == BitAnd(flags, VK_MEMORY_PROPERTY_HOST_VISIBLE_BIT) # 0

\* what vkGetBufferMemoryRequirements reports for a buffer, and the memory type
\* createBufferExplicit bound it to
bufferRequirements(memoryProperties, dev) ==
    [memoryTypeBits |-> dev.memoryTypeBits,
     memoryTypeIndex |->
         findMemoryType(m_memoryProperties, dev.memoryTypeBits, memoryProperties).index]

TrackRequirements(r, memoryProperties, dev) ==
    IF r.status = "returned"
    THEN devRequirements @@
             [h \in r.devBuffers \ devBuffers |-> bufferRequirements(memoryProperties, dev)]
    ELSE devRequirements

\* the memory type flags uploadBufferData looks at: those of the first type named in the
\* buffer's memoryTypeBits (the bits always name a type of the table)
UploadMemoryFlags(memoryTypeBits) ==
    LET named == {i \in 0..(Len(m_memoryProperties) - 1) :
                     BitAnd(memoryTypeBits, ShiftLeftOne(i)) # 0}
    IN  IF named = {} THEN 0 ELSE m_memoryProperties[Lowest(named) + 1]

\* the flags of the memory type a registered buffer's memory was allocated from
ActualMemoryFlags(buffer) ==
    m_memoryProperties[devRequirements[buffer.buffer].memoryTypeIndex + 1]

\* memcpy of data to offset
WriteBytes(mem, offset, data) ==
    [i \in 1..Len(mem) |->
        IF i > offset /\ i <= offset + Len(data) THEN data[i - offset] ELSE mem[i]]

\* vkMapMemory on a buffer's memory.  Mapping memory that is not host-visible is invalid
\* usage with undefined result: the call reports an error or the process dies.
MapOutcomes(buffer) ==
    IF ~HostVisible(ActualMemoryFlags(buffer))
    THEN {"error", "crash"}
    ELSE {"mapped", "error"}

StagingName(n) == "staging_" \o ToString(n)

StagingDeviceCalls ==
    {"none", "vkCreateBuffer", "vkAllocateMemory", "vkBindBufferMemory", "vkMapMemory",
     "vkQueueSubmit"}

StagingAnswers ==
    [memoryTypeBits : 1..(Pow2(Len(m_memoryProperties)) - 1), alignment : 1..2,
     failing : StagingDeviceCalls]

XferResult(op, name, size, status, error, path, data, offset, dest) ==
    [op |-> op, name |-> name, size |-> size, status |-> status, error |-> error,
     path |-> path, data |-> data, offset |-> offset, dest |-> dest]

\* createBuffer of the target buffer
XferCreate ==
    /\ TargetName \notin DOMAIN m_buffers
    /\ \E size \in BufferSizes, location \in XferLocations, persistentMap \in BOOLEAN,
          dev \in DeviceAnswers :
          \E r \in {createBufferOutcome(TargetName, size,
                                        memoryLocationToVulkanFlags(location),
                                        persistentMap, dev)} :
             /\ call' = XferResult("createBuffer", TargetName, size, r.status, r.error,
                                   "none", <<>>, 0, <<>>)
             /\ m_buffers' = r.m_buffers
             /\ devBuffers' = r.devBuffers
             /\ devMemory' = r.devMemory
             /\ m_totalAllocatedMemory' = r.m_totalAllocatedMemory
             /\ devRequirements' =
                    TrackRequirements(r, memoryLocationToVulkanFlags(location), dev)
    /\ UNCHANGED stagingCount

\* uploadBufferData(buffer, data, size, offset, commandPool, queue)
uploadBufferData(name, data, offset, haveQueue) ==
    LET buffer == m_buffers[name]
        size == Len(data)
        memFlags == UploadMemoryFlags(devRequirements[buffer.buffer].memoryTypeBits)
        done(status, error, path) ==
            call' = XferResult("upload", name, size, status, error, path, data, offset, <<>>)
    IN
    IF offset + size > buffer.size
    THEN /\ done("threw", "exceeds", "none")
         /\ UNCHANGED <<m_buffers, m_totalAllocatedMemory, devBuffers, devMemory, xferVars>>
    ELSE IF HostVisible(memFlags)
    THEN \E outcome \in MapOutcomes(buffer) :
            /\ IF outcome = "mapped"
               THEN /\ done("returned", "none", "direct")
                    /\ devMemory' =
                           [devMemory EXCEPT ![buffer.memory].data = WriteBytes(@, offset, data),
                                             ![buffer.memory].mapped = FALSE]
               ELSE /\ done(IF outcome = "crash" THEN "crashed" ELSE "threw",
                            "vkMapMemory", "direct")
                    /\ UNCHANGED devMemory
            /\ UNCHANGED <<m_buffers, m_totalAllocatedMemory, devBuffers, xferVars>>
    ELSE IF ~haveQueue
    THEN /\ done("threw", "no_queue", "staging")
         /\ UNCHANGED <<m_buffers, m_totalAllocatedMemory, devBuffers, devMemory, xferVars>>
    ELSE
    /\ stagingCount < MaxStaging
    /\ stagingCount' = stagingCount + 1
    /\ \E dev \in StagingAnswers :
         \E r \in {createBufferOutcome(StagingName(stagingCount), size,
                                       VK_MEMORY_PROPERTY_HOST_VISIBLE_BIT
                                           + VK_MEMORY_PROPERTY_HOST_COHERENT_BIT,
                                       FALSE, dev)} :
            /\ m_buffers' = r.m_buffers
            /\ devBuffers' = r.devBuffers
            /\ m_totalAllocatedMemory' = r.m_totalAllocatedMemory
            /\ devRequirements' =
                   TrackRequirements(r, VK_MEMORY_PROPERTY_HOST_VISIBLE_BIT
                                            + VK_MEMORY_PROPERTY_HOST_COHERENT_BIT, dev)
            /\ IF r.status = "threw"
               THEN /\ done("threw", r.error, "staging")
                    /\ devMemory' = r.devMemory
               ELSE IF dev.failing = "vkMapMemory"
               THEN /\ done("threw", "vkMapMemory", "staging")
                    /\ devMemory' = r.devMemory
               ELSE
               LET stagingMemory == r.m_buffers[StagingName(stagingCount)].memory
                   staged == [r.devMemory EXCEPT
                                 ![stagingMemory].data = WriteBytes(@, 0, data)]
               IN  /\ done("returned", "none", "staging")
                   /\ devMemory' =
                          IF dev.failing = "vkQueueSubmit"
                          THEN staged
                          ELSE [staged EXCEPT ![buffer.memory].data =
                                   WriteBytes(@, offset,
                                              SubSeq(staged[stagingMemory].data, 1, size))]

Upload ==
    /\ TargetName \in DOMAIN m_buffers
    /\ \E data \in ByteStrings, offset \in Offsets, haveQueue \in BOOLEAN :
          uploadBufferData(TargetName, data, offset, haveQueue)

\* downloadBufferData(buffer, data, size, offset)
downloadBufferData(name, size, offset) ==
    LET buffer == m_buffers[name]
        done(status, error, dest) ==
            call' = XferResult("download", name, size, status, error, "none", <<>>, offset,
                               dest)
    IN
    /\ IF offset + size > buffer.size
       THEN done("threw", "exceeds", <<>>) /\ UNCHANGED devMemory
       ELSE \E outcome \in MapOutcomes(buffer) :
               IF outcome = "mapped"
               THEN /\ done("returned", "none",
                            SubSeq(devMemory[buffer.memory].data, offset + 1, offset + size))
                    /\ devMemory' = [devMemory EXCEPT ![buffer.memory].mapped = FALSE]
               ELSE /\ done(IF outcome = "crash" THEN "crashed" ELSE "threw",
                            "vkMapMemory", <<>>)
                    /\ UNCHANGED devMemory
    /\ UNCHANGED <<m_buffers, m_totalAllocatedMemory, devBuffers, xferVars>>

Download ==
    /\ TargetName \in DOMAIN m_buffers
    /\ \E size \in BufferSizes, offset \in Offsets :
          downloadBufferData(TargetName, size, offset)

XferInit ==
    /\ FrameIdle /\ LayoutIdle /\ ShaderIdle /\ TextureIdle /\ ReloadIdle /\ MemIdle /\ XferIdle /\ PipeIdle
    /\ fm_types \in DeviceMemoryTables
    /\ fm_filter = 0
    /\ fm_props = 0
    /\ fm_result = [op |-> "none"]

XferOnly == UNCHANGED <<frameVars, layoutVars, findVars, pipeVars, shaderVars, textureVars, reloadVars, teardownVars>>

XferNext ==
    \/ XferCreate /\ XferOnly
    \/ Upload /\ XferOnly
    \/ Download /\ XferOnly

SpecXfer == XferInit /\ [][XferNext]_vars

\* C34: a registered buffer's recorded mapped pointer is non-null exactly when its device
\* memory is currently mapped; in particular an upload or download on a persistently
\* mapped buffer leaves it mapped with its pointer still valid.
C34_MappedPointerMatchesMapping ==
    \A name \in DOMAIN m_buffers :
        m_buffers[name].mappedData <=> devMemory[m_buffers[name].memory].mapped

\* position of a device call in a sequence of calls, 0 when absent
IndexOf(calls, c) ==
    IF \E i \in 1..Len(calls) : calls[i] = c
    THEN CHOOSE i \in 1..Len(calls) : calls[i] = c
    ELSE 0

\* C16: in removeBuffer and clearBuffers, every buffer destroyed is unmapped first (if it
\* is mapped), then its device memory is freed, then its buffer handle is destroyed.
C16_DestroyOrder ==
    call.op \in {"removeBuffer", "clearBuffers"} =>
        \A n \in DOMAIN call.calls :
            /\ IndexOf(call.calls[n], "vkFreeMemory") > IndexOf(call.calls[n], "vkUnmapMemory")
            /\ IndexOf(call.calls[n], "vkDestroyBuffer") > IndexOf(call.calls[n], "vkFreeMemory")

(***************************************************************************)
(* ComputePipeline.  uint32_t and size_t values are sequences of base-256  *)
(* digits, least significant first, without leading zeros.                 *)
(***************************************************************************)
Digit == 256

Trim(a) ==
    IF \A i \in 1..Len(a) : a[i] = 0
    THEN <<>>
    ELSE SubSeq(a, 1, CHOOSE n \in 1..Len(a) : a[n] # 0 /\ \A i \in (n + 1)..Len(a) : a[i] = 0)

DigitAt(a, i) == IF i \in 1..Len(a) THEN a[i] ELSE 0

RECURSIVE Propagate(_, _)
Propagate(columns, carry) ==
    IF columns = <<>>
    THEN IF carry = 0 THEN <<>> ELSE <<carry % Digit>> \o Propagate(<<>>, carry \div Digit)
    ELSE <<(columns[1] + carry) % Digit>>
             \o Propagate(Tail(columns), (columns[1] + carry) \div Digit)

\* a + b and a * b, exact
Add(a, b) ==
    Trim(Propagate([k \in 1..(IF Len(a) > Len(b) THEN Len(a) ELSE Len(b)) |->
                       DigitAt(a, k) + DigitAt(b, k)], 0))

RECURSIVE ColumnSum(_, _, _, _)
ColumnSum(a, b, k, i) ==
    IF i > Len(a) THEN 0 ELSE a[i] * DigitAt(b, k + 1 - i) + ColumnSum(a, b, k, i + 1)

Mul(a, b) ==
    IF a = <<>> \/ b = <<>>
    THEN <<>>
    ELSE Trim(Propagate([k \in 1..(Len(a) + Len(b) - 1) |-> ColumnSum(a, b, k, 1)], 0))

\* the value of a small integer
RECURSIVE Digits(_)
Digits(n) == IF n = 0 THEN <<>> ELSE <<n % Digit>> \o Digits(n \div Digit)

\* conversion to uint32_t: the value modulo 2^32
Wrap32(a) == Trim(SubSeq(a, 1, IF Len(a) > 4 THEN 4 ELSE Len(a)))

UINT32_MAX == <<255, 255, 255, 255>>

\* a / d for a divisor below 2^23, rounding down
RECURSIVE RemainderFrom(_, _, _)
RemainderFrom(a, i, d) ==
    IF i > Len(a) THEN 0 ELSE (RemainderFrom(a, i + 1, d) * Digit + a[i]) % d

Div(a, d) ==
    Trim([i \in 1..Len(a) |-> (RemainderFrom(a, i + 1, d) * Digit + a[i]) \div d])

RECURSIVE ToNat(_)
ToNat(a) == IF a = <<>> THEN 0 ELSE a[1] + Digit * ToNat(Tail(a))

\* a < b
Less(a, b) ==
    \/ Len(a) < Len(b)
    \/ /\ Len(a) = Len(b)
       /\ \E i \in 1..Len(a) :
             /\ a[i] < b[i]
             /\ \A j \in (i + 1)..Len(a) : a[j] = b[j]

RECURSIVE Decrement(_)
Decrement(a) ==
    IF a[1] > 0 THEN Trim(<<a[1] - 1>> \o Tail(a)) ELSE <<Digit - 1>> \o Decrement(Tail(a))

\* conversion to VkDeviceSize (uint64_t): the value modulo 2^64
Wrap64(a) == Trim(SubSeq(a, 1, IF Len(a) > 8 THEN 8 ELSE Len(a)))

UINT64_MAX == <<255, 255, 255, 255, 255, 255, 255, 255>>

\* offsets and sizes a caller can pass: small ones, and those near 2^63 and 2^64
DeviceSizes ==
    {Digits(0), Digits(1), Digits(2), <<0, 0, 0, 0, 0, 0, 0, 128>>,
     Decrement(UINT64_MAX), UINT64_MAX}

\* the test uploadBufferData and downloadBufferData make before mapping:
\* offset + size > buffer->size, in VkDeviceSize arithmetic
ExceedsBufferSize(offset, size, bufferSize) ==
    Less(bufferSize, Wrap64(Add(offset, size)))

\* the first steps of uploadBufferData / downloadBufferData on a host-visible buffer of
\* bufferSize bytes: the range test, then vkMapMemory(memory, offset, size)
checkedTransfer(op, bufferSize, offset, size) ==
    call' = [op |-> op, bufferSize |-> bufferSize, offset |-> offset, size |-> size,
             status |-> IF ExceedsBufferSize(offset, size, bufferSize)
                        THEN "threw" ELSE "vkMapMemory"]

CheckedUpload ==
    \E bufferSize \in BufferSizes, offset \in DeviceSizes, size \in DeviceSizes :
        checkedTransfer("upload", Digits(bufferSize), offset, size)

CheckedDownload ==
    \E bufferSize \in BufferSizes, offset \in DeviceSizes, size \in DeviceSizes :
        checkedTransfer("download", Digits(bufferSize), offset, size)

RangeOnly ==
    UNCHANGED <<frameVars, layoutVars, findVars, xferVars, pipeVars, shaderVars, textureVars, reloadVars,
                teardownVars,
                m_buffers, m_totalAllocatedMemory, devBuffers, devMemory>>

RangeNext ==
    \/ CheckedUpload /\ RangeOnly
    \/ CheckedDownload /\ RangeOnly

SpecRange == MemInit /\ [][RangeNext]_vars

\* C36: for all 64-bit offset and size, uploadBufferData and downloadBufferData go on to
\* map and copy only if offset <= buffer size and size <= buffer size - offset, that is
\* only if the exact sum offset + size does not exceed the buffer size; every other pair,
\* also one whose 64-bit sum wraps around, is rejected before any memory is mapped.
C36_MapsOnlyRangesInsideBuffer ==
    call.op \in {"upload", "download"} =>
        (call.status = "vkMapMemory" <=>
             ~Less(call.bufferSize, Add(call.offset, call.size)))

\* ComputePipeline::calculateDispatchInfo, in uint32_t arithmetic
calculateDispatchInfo(imageWidth, imageHeight, workGroupSizeX, workGroupSizeY) ==
    [groupCountX |->
         Div(Wrap32(Add(Wrap32(Add(imageWidth, workGroupSizeX)), UINT32_MAX)),
             ToNat(workGroupSizeX)),
     groupCountY |->
         Div(Wrap32(Add(Wrap32(Add(imageHeight, workGroupSizeY)), UINT32_MAX)),
             ToNat(workGroupSizeY)),
     groupCountZ |-> Digits(1)]

\* image dimensions: small ones, the application's 800, and those around 2^16 and 2^32
Dimensions ==
    {Digits(1), Digits(16), Digits(17), Digits(800), Digits(65536), Digits(65537),
     <<241, 255, 255, 255>>, UINT32_MAX}

WorkGroupSize == Digits(16)

NoDispatchInfo == [groupCountX |-> <<>>, groupCountY |-> <<>>, groupCountZ |-> <<>>]

PipelineResult(op, status, failed, info) ==
    [op |-> op, status |-> status, failed |-> failed, info |-> info]

PipelineOtherFrame ==
    UNCHANGED <<m_isRunning, destroyed, pc, splitQueues, m_textureReady, m_pipelineReady, m_graphicsCommandBuffers,
                imageIndex, queues, imageLayout, steps, frameCount, lastFrame>>

PipeOnly == UNCHANGED <<layoutVars, findVars, memVars, xferVars, shaderVars, textureVars, reloadVars, teardownVars>>

\* calculateDispatchInfo(m_fractalImageWidth, m_fractalImageHeight, 16, 16), as
\* dispatchFractalCompute calls it
CalculateDispatchInfo ==
    /\ pcall.op = "none"
    /\ pcall' = PipelineResult("calculateDispatchInfo", "returned", "none",
                               calculateDispatchInfo(m_fractalImageWidth,
                                                     m_fractalImageHeight,
                                                     WorkGroupSize, WorkGroupSize))
    /\ UNCHANGED <<m_fractalPipelineReady, m_computeCommandBuffer, m_fractalImageWidth,
                   m_fractalImageHeight, m_fractalParameterBuffer, m_fractalOutputBuffer,
                   m_shaders, managed>>
    /\ PipelineOtherFrame

\* the function applied to each pair of dimensions
DispatchInfoInit ==
    /\ FrameIdle /\ LayoutIdle /\ ShaderIdle /\ TextureIdle /\ ReloadIdle /\ FindIdle /\ MemIdle /\ XferIdle
    /\ m_fractalImageWidth \in Dimensions
    /\ m_fractalImageHeight \in Dimensions
    /\ m_fractalParameterBuffer = [buffer |-> 0]
    /\ m_fractalOutputBuffer = [buffer |-> 0]
    /\ m_shaders = {}
    /\ managed = <<>>
    /\ pcall = [op |-> "none"]

DispatchInfoNext == CalculateDispatchInfo /\ PipeOnly

SpecDispatchInfo == DispatchInfoInit /\ [][DispatchInfoNext]_vars

sizeof_FractalParameters == Digits(32)
sizeof_uint32_t == Digits(4)

\* the steps of createFractalPipeline that can fail for a reason outside the program
PipelineSteps ==
    {"loadShaderFromFile", "vkCreateDescriptorSetLayout", "vkCreatePipelineLayout",
     "vkCreateComputePipelines", "createBuffer(fractal_parameters)",
     "createBuffer(fractal_output)", "vkAllocateDescriptorSets"}

\* image dimensions createFractalPipeline is called with
ImageSizes == {Digits(800), Digits(65536), Digits(65537)}

\* what the device and the shader compiler answer during one createFractalPipeline call:
\* the step that fails and the memory type bits of the two buffers (only asked for when
\* the call gets as far as creating a buffer whose name is free)
PipelineAnswers ==
    UNION {[failing : {failing},
            parameterTypeBits :
                IF \/ failing \in {"vkCreateDescriptorSetLayout", "vkCreatePipelineLayout",
                                   "vkCreateComputePipelines",
                                   "createBuffer(fractal_parameters)"}
                   \/ "fractal_parameters" \in DOMAIN managed
                THEN {1}
                ELSE 1..(Pow2(Len(m_memoryProperties)) - 1),
            outputTypeBits :
                IF \/ failing \in {"vkCreateDescriptorSetLayout", "vkCreatePipelineLayout",
                                   "vkCreateComputePipelines",
                                   "createBuffer(fractal_parameters)",
                                   "createBuffer(fractal_output)"}
                   \/ "fractal_parameters" \in DOMAIN managed
                THEN {1}
                ELSE 1..(Pow2(Len(m_memoryProperties)) - 1)] :
           failing \in {"none"} \cup PipelineSteps}

\* MemoryManager::createBuffer as the pipeline sees it: throws, or registers the buffer
\* with the size asked for, bound to the memory type findMemoryType selects
managerCreateBuffer(registry, name, size, location, persistentMap, memoryTypeBits, fails) ==
    LET found == findMemoryType(m_memoryProperties, memoryTypeBits,
                                memoryLocationToVulkanFlags(location))
        threw(error) == [status |-> "threw", error |-> error, managed |-> registry]
    IN  IF name \in DOMAIN registry THEN threw("duplicate")
        ELSE IF fails THEN threw("device")
        ELSE IF found.status = "threw" THEN threw("findMemoryType")
        ELSE [status |-> "returned", error |-> "none",
              managed |-> registry @@
                  (name :> [name |-> name, size |-> size,
                            memoryTypeIndex |-> found.index,
                            mappedData |-> persistentMap])]

\* the catch clause sets the flag to false, the end of the try block to true
ReadyAfter_KeepOnFailure(thrown, before) == IF thrown = "none" THEN TRUE ELSE before

ReadyAfter(thrown, before) == thrown = "none"

\* the try block of createFractalPipeline: the step that threw ("none" when it ran to
\* the end) and the members as it left them
createFractalPipelineBody(imageWidth, imageHeight, dev) ==
    LET cached == "mandelbrot" \in m_shaders
        left(thrown, shaders, registry, parameterBuffer, outputBuffer) ==
            [thrown |-> thrown, m_shaders |-> shaders, managed |-> registry,
             m_fractalParameterBuffer |-> parameterBuffer,
             m_fractalOutputBuffer |-> outputBuffer]
        paramCreate ==
            managerCreateBuffer(managed, "fractal_parameters", sizeof_FractalParameters,
                                "CPU_TO_GPU", TRUE, dev.parameterTypeBits,
                                dev.failing = "createBuffer(fractal_parameters)")
        outputBufferSize == Mul(Wrap32(Mul(imageWidth, imageHeight)), sizeof_uint32_t)
        outputCreate ==
            managerCreateBuffer(paramCreate.managed, "fractal_output", outputBufferSize,
                                "GPU_ONLY", FALSE, dev.outputTypeBits,
                                dev.failing = "createBuffer(fractal_output)")
        loaded == m_shaders \cup {"mandelbrot"}
    IN  IF ~cached /\ dev.failing = "loadShaderFromFile"
        THEN left("loadShaderFromFile", m_shaders, managed,
                  m_fractalParameterBuffer, m_fractalOutputBuffer)
        ELSE IF dev.failing \in {"vkCreateDescriptorSetLayout", "vkCreatePipelineLayout",
                                 "vkCreateComputePipelines"}
        THEN left(dev.failing, loaded, managed,
                  m_fractalParameterBuffer, m_fractalOutputBuffer)
        ELSE IF paramCreate.status = "threw"
        THEN left("createBuffer(fractal_parameters)", loaded, managed,
                  m_fractalParameterBuffer, m_fractalOutputBuffer)
        ELSE IF outputCreate.status = "threw"
        THEN left("createBuffer(fractal_output)", loaded, paramCreate.managed,
                  paramCreate.managed["fractal_parameters"], m_fractalOutputBuffer)
        ELSE left(IF dev.failing = "vkAllocateDescriptorSets" THEN dev.failing ELSE "none",
                  loaded, outputCreate.managed,
                  outputCreate.managed["fractal_parameters"],
                  outputCreate.managed["fractal_output"])

\* bool createFractalPipeline(imageWidth, imageHeight): every exception the body throws
\* derives from std::exception and is caught
createFractalPipeline(imageWidth, imageHeight, dev) ==
    \E body \in {createFractalPipelineBody(imageWidth, imageHeight, dev)} :
        /\ m_fractalImageWidth' = imageWidth
        /\ m_fractalImageHeight' = imageHeight
        /\ m_shaders' = body.m_shaders
        /\ managed' = body.managed
        /\ m_fractalParameterBuffer' = body.m_fractalParameterBuffer
        /\ m_fractalOutputBuffer' = body.m_fractalOutputBuffer
        /\ m_fractalPipelineReady' = ReadyAfter(body.thrown, m_fractalPipelineReady)
        /\ pcall' = PipelineResult("createFractalPipeline",
                                   IF body.thrown = "none" THEN "true" ELSE "false",
                                   body.thrown, NoDispatchInfo)

CreateFractalPipeline ==
    /\ \E imageWidth \in ImageSizes, imageHeight \in ImageSizes, dev \in PipelineAnswers :
          createFractalPipeline(imageWidth, imageHeight, dev)
    /\ UNCHANGED m_computeCommandBuffer
    /\ PipelineOtherFrame

\* dispatchFractalCompute(commandBuffer) with the default work group size
DispatchFractalCompute ==
    /\ Len(m_computeCommandBuffer) < MaxCmds
    /\ m_computeCommandBuffer' = dispatchFractalCompute(m_computeCommandBuffer)
    /\ pcall' = PipelineResult("dispatchFractalCompute", "returned", "none",
                               IF m_fractalPipelineReady
                               THEN calculateDispatchInfo(m_fractalImageWidth,
                                                          m_fractalImageHeight,
                                                          WorkGroupSize, WorkGroupSize)
                               ELSE NoDispatchInfo)
    /\ UNCHANGED <<m_fractalPipelineReady, m_fractalImageWidth, m_fractalImageHeight,
                   m_fractalParameterBuffer, m_fractalOutputBuffer, m_shaders, managed>>
    /\ PipelineOtherFrame

\* renderFrame begins the compute command buffer again, which empties it
ResetComputeCommandBuffer ==
    /\ m_computeCommandBuffer # <<>>
    /\ m_computeCommandBuffer' = <<>>
    /\ UNCHANGED <<m_fractalPipelineReady, pipeVars>>
    /\ PipelineOtherFrame

\* a ComputePipeline just constructed on a device with one of the memory type tables
PipeInit ==
    /\ pc = "stopped"
    /\ splitQueues = FALSE
    /\ m_fractalPipelineReady = FALSE
    /\ m_textureReady = TRUE
    /\ m_pipelineReady = TRUE
    /\ m_computeCommandBuffer = <<>>
    /\ m_graphicsCommandBuffers = [i \in 1..MaxImages |-> <<>>]
    /\ imageIndex = 1
    /\ queues = [q \in QueueNames |-> <<>>]
    /\ imageLayout = LAYOUT_UNDEFINED
    /\ steps = <<>>
    /\ frameCount = 0
    /\ lastFrame = "none"
    /\ m_isRunning = FALSE
    /\ destroyed = <<>>
    /\ LayoutIdle /\ ShaderIdle /\ TextureIdle /\ ReloadIdle /\ MemIdle /\ XferIdle /\ PipeIdle
    /\ fm_types \in DeviceMemoryTables
    /\ fm_filter = 0
    /\ fm_props = 0
    /\ fm_result = [op |-> "none"]

PipeNext ==
    \/ CreateFractalPipeline /\ PipeOnly
    \/ DispatchFractalCompute /\ PipeOnly
    \/ ResetComputeCommandBuffer /\ PipeOnly

SpecPipeline == PipeInit /\ [][PipeNext]_vars

(***************************************************************************)
(* The fractal compute shader (mandelbrot.comp) and the calls around it:   *)
(* updateFractalParameters, the execution of one dispatch recorded by      *)
(* dispatchFractalCompute, and getFractalData.  The shader's float         *)
(* arithmetic is carried in fixed point, Fixed units to 1.0.               *)
(***************************************************************************)
Fixed == 1024

FixedMul(a, b) == (a * b) \div Fixed

Clamp(v, lo, hi) == IF v < lo THEN lo ELSE IF v > hi THEN hi ELSE v

AbsValue(v) == IF v < 0 THEN 0 - v ELSE v

\* uint packRGBA(r, g, b, a): (aInt << 24) | (bInt << 16) | (gInt << 8) | rInt
packRGBA(r, g, b, a) ==
    LET byte(c) == Clamp((c * 255) \div Fixed, 0, 255)
    IN  Trim(<<byte(r), byte(g), byte(b), byte(a)>>)

\* vec3 hsv2rgb(h, s, v), one component per entry of K.xyz
hsv2rgb(h, s, v) ==
    LET K == <<Fixed, (2 * Fixed) \div 3, Fixed \div 3>>
        p(k) == AbsValue(((h + K[k]) % Fixed) * 6 - 3 * Fixed)
        mixed(k) == FixedMul(Fixed, Fixed - s) + FixedMul(Clamp(p(k) - Fixed, 0, Fixed), s)
    IN  [k \in 1..3 |-> FixedMul(v, mixed(k))]

\* one pass of the for loop of mandelbrotIterations: the loop condition, the escape
\* test, the update of z
MandelbrotStep(z, cx, cy, maxIterations) ==
    IF z.escaped \/ z.i >= maxIterations THEN z
    ELSE LET zx2 == FixedMul(z.zx, z.zx)
             zy2 == FixedMul(z.zy, z.zy)
         IN  IF zx2 + zy2 > 4 * Fixed THEN [z EXCEPT !.escaped = TRUE]
             ELSE [zx |-> zx2 - zy2 + cx, zy |-> FixedMul(2 * z.zx, z.zy) + cy,
                   i |-> z.i + 1, escaped |-> FALSE]

\* eight passes of the loop
MandelbrotBlock(z, cx, cy, maxIterations) ==
    LET z1 == MandelbrotStep(z, cx, cy, maxIterations)
        z2 == MandelbrotStep(z1, cx, cy, maxIterations)
        z3 == MandelbrotStep(z2, cx, cy, maxIterations)
        z4 == MandelbrotStep(z3, cx, cy, maxIterations)
        z5 == MandelbrotStep(z4, cx, cy, maxIterations)
        z6 == MandelbrotStep(z5, cx, cy, maxIterations)
        z7 == MandelbrotStep(z6, cx, cy, maxIterations)
    IN  MandelbrotStep(z7, cx, cy, maxIterations)

\* the loop run to its end: the value returned is i, which is maxIterations when the
\* loop condition ended it
RECURSIVE MandelbrotFrom(_, _, _, _)
MandelbrotFrom(z, cx, cy, maxIterations) ==
    IF z.escaped \/ z.i >= maxIterations THEN z.i
    ELSE MandelbrotFrom(MandelbrotBlock(z, cx, cy, maxIterations), cx, cy, maxIterations)

mandelbrotIterations(cx, cy, maxIterations) ==
    MandelbrotFrom([zx |-> 0, zy |-> 0, i |-> 0, escaped |-> FALSE], cx, cy, maxIterations)

iterationsToColor(iterations, params) ==
    IF iterations >= params.maxIterations
    THEN packRGBA(0, 0, 0, Fixed)
    ELSE LET t == FixedMul((iterations * Fixed) \div params.maxIterations,
                           params.colorScale)
             rgb == hsv2rgb((t * 3) % Fixed, Fixed, IF t < Fixed THEN t ELSE Fixed)
         IN  packRGBA(rgb[1], rgb[2], rgb[3], Fixed)

\* uint pixelIndex = pixelCoord.y * params.imageWidth + pixelCoord.x
PixelIndex(x, y, imageWidth) == Wrap32(Add(Mul(y, imageWidth), x))

\* void main() for the invocation with gl_GlobalInvocationID.xy = (x, y): the writes it
\* makes to outputBuffer.pixels, none when the bounds check returns
main(x, y, params) ==
    IF ~Less(Digits(x), params.imageWidth) \/ ~Less(Digits(y), params.imageHeight)
    THEN {}
    ELSE LET width == ToNat(params.imageWidth)
             height == ToNat(params.imageHeight)
             aspectRatio == (width * Fixed) \div height
             fractalWidth == (4 * Fixed * Fixed) \div params.zoom
             fractalHeight == (fractalWidth * Fixed) \div aspectRatio
             fx == params.centerX
                     + FixedMul((x * Fixed) \div width - Fixed \div 2, fractalWidth)
             fy == params.centerY
                     + FixedMul((y * Fixed) \div height - Fixed \div 2, fractalHeight)
             iterations == mandelbrotIterations(fx, fy, params.maxIterations)
         IN  {[x |-> x, y |-> y,
               pixelIndex |-> PixelIndex(Digits(x), Digits(y), params.imageWidth),
               color |-> iterationsToColor(iterations, params)]}

\* the largest number of work groups whose invocations are all followed; of a larger
\* dispatch only the invocations of the centre pixel and of the far corner pixel are
MaxGroups == 4

localSize == 16

\* a - 1 for a > 0
CenterPixel(width, height) == <<Div(width, 2), Div(height, 2)>>
CornerPixel(width, height) == <<Decrement(width), Decrement(height)>>

AllFollowed(info) ==
    /\ Len(info.groupCountX) <= 1
    /\ Len(info.groupCountY) <= 1
    /\ ToNat(info.groupCountX) * ToNat(info.groupCountY) <= MaxGroups

Invocations(info) ==
    IF AllFollowed(info)
    THEN (0..(ToNat(info.groupCountX) * localSize - 1))
             \X (0..(ToNat(info.groupCountY) * localSize - 1))
    ELSE {<<ToNat(p[1]), ToNat(p[2])>> :
              p \in {CenterPixel(m_fractalImageWidth, m_fractalImageHeight),
                     CornerPixel(m_fractalImageWidth, m_fractalImageHeight)}}

\* parameter records given to updateFractalParameters: the view of the application,
\* with the image size either that of the pipeline or another one
OtherWidth == Digits(32)
OtherHeight == Digits(16)

ApplicationView(imageWidth, imageHeight) ==
    [written |-> TRUE, centerX |-> 0 - Fixed \div 2, centerY |-> 0, zoom |-> Fixed,
     maxIterations |-> 100, imageWidth |-> imageWidth, imageHeight |-> imageHeight,
     colorScale |-> Fixed, fractalType |-> 0]

ParameterRecords ==
    {ApplicationView(w, h) : w \in {m_fractalImageWidth, OtherWidth},
                             h \in {m_fractalImageHeight, OtherHeight}}

\* pipelines created for the shader: small images, the 800x600 image of the
\* application, and an image one pixel high of the largest widths; the device reports
\* the same memory type bits for both buffers and no creation step fails
ShaderImageSizes ==
    ({Digits(1), Digits(16), Digits(17)} \X {Digits(1), Digits(17)})
        \cup {<<Digits(800), Digits(600)>>, <<<<241, 255, 255, 255>>, Digits(1)>>}

ShaderCreatePipeline ==
    /\ ~m_fractalPipelineReady
    /\ pcall.op = "none"
    /\ \E size \in ShaderImageSizes :
       \E dev \in {d \in PipelineAnswers :
                       d.failing = "none" /\ d.parameterTypeBits = d.outputTypeBits} :
          createFractalPipeline(size[1], size[2], dev)
    /\ UNCHANGED m_computeCommandBuffer
    /\ UNCHANGED shaderVars
    /\ PipelineOtherFrame

\* updateFractalParameters(params): memcpy into the mapped parameter buffer
updateFractalParameters(params) ==
    IF ~m_fractalPipelineReady \/ m_fractalParameterBuffer = nullptr
    THEN UNCHANGED mappedParameters
    ELSE IF m_fractalParameterBuffer.mappedData
    THEN mappedParameters' = params
    ELSE UNCHANGED mappedParameters

UpdateFractalParameters ==
    /\ m_fractalPipelineReady
    /\ \E params \in ParameterRecords : updateFractalParameters(params)
    /\ UNCHANGED <<outputWrites, scall, m_computeCommandBuffer, m_fractalPipelineReady,
                   pipeVars>>
    /\ PipelineOtherFrame

\* the device executes vkCmdDispatch(groupCountX, groupCountY, 1) as recorded by
\* dispatchFractalCompute, the shader reading the parameter buffer
ExecuteDispatch ==
    /\ m_fractalPipelineReady
    /\ mappedParameters.written
    /\ \E info \in {calculateDispatchInfo(m_fractalImageWidth, m_fractalImageHeight,
                                          WorkGroupSize, WorkGroupSize)} :
          outputWrites' =
              [executed |-> TRUE, params |-> mappedParameters, info |-> info,
               writes |-> UNION {main(i[1], i[2], mappedParameters) :
                                    i \in Invocations(info)}]
    /\ UNCHANGED <<mappedParameters, scall, m_computeCommandBuffer,
                   m_fractalPipelineReady, pipeVars>>
    /\ PipelineOtherFrame

\* what the output buffer holds at a pixel index after the last dispatch
PixelAt(pixelIndex) ==
    LET writes == IF outputWrites.executed
                  THEN {w \in outputWrites.writes : w.pixelIndex = pixelIndex}
                  ELSE {}
    IN  IF writes = {} THEN "uninitialized" ELSE (CHOOSE w \in writes : TRUE).color

\* vkMapMemory on the output buffer's memory inside downloadBufferData.  Mapping memory
\* that is not host-visible is invalid usage: the call reports an error or the
\* process dies.
OutputMapOutcomes ==
    IF HostVisible(m_memoryProperties[m_fractalOutputBuffer.memoryTypeIndex + 1])
    THEN {"mapped", "device error"}
    ELSE {"invalid usage error", "crash"}

\* the outcome of a getFractalData call, with the parameters of the dispatch executed
\* before it
ShaderResult(result, outcome, center, corner) ==
    [op |-> "getFractalData", result |-> result, vkMapMemory |-> outcome,
     center |-> center, corner |-> corner,
     dispatched |-> IF outputWrites.executed THEN outputWrites.params
                    ELSE [written |-> FALSE]]

\* bool getFractalData(outputData): of the data returned, the values at the image
\* centre and at the far corner are kept
getFractalData ==
    IF ~m_fractalPipelineReady \/ m_fractalOutputBuffer = nullptr
    THEN scall' = ShaderResult("false", "not called", "none", "none")
    ELSE \E outcome \in OutputMapOutcomes :
            scall' =
                IF outcome = "mapped"
                THEN LET c == CenterPixel(m_fractalImageWidth, m_fractalImageHeight)
                         f == CornerPixel(m_fractalImageWidth, m_fractalImageHeight)
                         at(p) == PixelAt(PixelIndex(p[1], p[2], m_fractalImageWidth))
                     IN  ShaderResult("true", outcome, at(c), at(f))
                ELSE ShaderResult(IF outcome = "crash" THEN "crashed" ELSE "false",
                                  outcome, "none", "none")

GetFractalData ==
    /\ m_fractalPipelineReady
    /\ getFractalData
    /\ UNCHANGED <<mappedParameters, outputWrites, m_computeCommandBuffer,
                   m_fractalPipelineReady, pipeVars>>
    /\ PipelineOtherFrame

ShaderOnly == UNCHANGED <<layoutVars, findVars, memVars, xferVars, textureVars, reloadVars, teardownVars>>

ShaderNext ==
    \/ ShaderCreatePipeline /\ ShaderOnly
    \/ UpdateFractalParameters /\ ShaderOnly
    \/ ExecuteDispatch /\ ShaderOnly
    \/ GetFractalData /\ ShaderOnly

SpecShader == PipeInit /\ [][ShaderNext]_vars


\* C24: with an 800x600 pipeline and the parameters maxIterations = 100, centre
\* (-0.5, 0), zoom 1, a getFractalData that follows a dispatch succeeds, unless the
\* device fails a valid call, and returns the value maxIterations at the image-centre
\* pixel and a value below maxIterations at the far-corner pixel.
C24_CentreAndCornerIterations ==
    (/\ scall.op = "getFractalData"
     /\ scall.vkMapMemory # "device error"
     /\ m_fractalImageWidth = Digits(800)
     /\ m_fractalImageHeight = Digits(600)
     /\ scall.dispatched = ApplicationView(Digits(800), Digits(600))) =>
        /\ scall.result = "true"
        /\ scall.center = Digits(scall.dispatched.maxIterations)
        /\ Less(scall.corner, Digits(scall.dispatched.maxIterations))

\* the writes of the last dispatch, when every one of its invocations was followed
WritesOfMatchingDispatch ==
    IF /\ outputWrites.executed
       /\ outputWrites.params.imageWidth = m_fractalImageWidth
       /\ outputWrites.params.imageHeight = m_fractalImageHeight
       /\ AllFollowed(outputWrites.info)
    THEN {outputWrites.writes}
    ELSE {}

\* C29: when the parameter record carries the pipeline's width and height, one dispatch
\* writes each output index of [0, width*height) exactly once, the invocation of pixel
\* (x, y) writing index y*width + x, and writes no index outside that range.
C29_EveryPixelWrittenOnce ==
    \A writes \in WritesOfMatchingDispatch :
        /\ \A w \in writes :
              /\ w.pixelIndex = Add(Mul(Digits(w.y), m_fractalImageWidth), Digits(w.x))
              /\ Less(w.pixelIndex, Mul(m_fractalImageWidth, m_fractalImageHeight))
        /\ \A w1, w2 \in writes : w1.pixelIndex = w2.pixelIndex => w1 = w2
        /\ Digits(Cardinality(writes)) = Mul(m_fractalImageWidth, m_fractalImageHeight)

\* C30: whatever parameter record updateFractalParameters accepted, a dispatch writes
\* only output indices below the number of 4-byte elements of the output buffer.
C30_WritesInsideOutputBuffer ==
    outputWrites.executed =>
        \A w \in outputWrites.writes :
            Less(w.pixelIndex, Div(m_fractalOutputBuffer.size, 4))

\* the target buffer is registered and its memory comes from a host-visible type
TargetHostVisible ==
    /\ TargetName \in DOMAIN m_buffers
    /\ HostVisible(ActualMemoryFlags(m_buffers[TargetName]))

TargetDeviceOnly ==
    /\ TargetName \in DOMAIN m_buffers
    /\ ~HostVisible(ActualMemoryFlags(m_buffers[TargetName]))

\* C11: for a buffer in host-visible memory and data that fits the buffer, an upload
\* (called with its default arguments included) succeeds unless a device call fails, and
\* a download of the same range straight after a successful upload succeeds with
\* dest equal to the uploaded data.
C11_RoundTrip ==
    [][TargetHostVisible =>
          /\ (call'.op = "upload" /\ call'.error # "exceeds") =>
                 \/ call'.status = "returned"
                 \/ call'.status = "threw" /\ call'.error \in StagingDeviceCalls
          /\ (/\ call.op = "upload" /\ call.status = "returned"
              /\ call'.op = "download" /\ call'.status = "returned"
              /\ call'.offset = call.offset /\ call'.size = call.size) =>
                 call'.dest = call.data]_vars

\* C12: on every memory-type table, an upload that gets past its range check takes the
\* direct (map and copy) path exactly when the memory type backing the buffer is
\* host-visible, and the staging path otherwise.
C12_UploadPathMatchesMemory ==
    (call.op = "upload" /\ call.path # "none") =>
        (call.path = "direct" <=> TargetHostVisible)

\* C13: when an upload to a buffer in memory that is not host-visible returns
\* successfully, the buffer's bytes [offset, offset + size) equal data in order and
\* every other byte is what it was before the call.
C13_StagedCopyLands ==
    [][(TargetDeviceOnly /\ call'.op = "upload" /\ call'.status = "returned") =>
          devMemory'[m_buffers[TargetName].memory].data =
              WriteBytes(devMemory[m_buffers[TargetName].memory].data,
                         call'.offset, call'.data)]_vars

\* C14: when an upload that took the staging path ends, successfully or not, the staging
\* buffer is gone: the registered names, the total allocation counter and the device's
\* buffers and allocations are what they were before the call.
C14_StagingDisposable ==
    [][(call'.op = "upload" /\ call'.path = "staging") =>
          /\ DOMAIN m_buffers' = DOMAIN m_buffers
          /\ m_totalAllocatedMemory' = m_totalAllocatedMemory
          /\ devBuffers' = devBuffers
          /\ DOMAIN devMemory' = DOMAIN devMemory]_vars

\* C15: a download within range from a buffer whose memory is not host-visible throws the
\* NotHostVisible error without making a device call, and writes nothing to dest.
C15_DownloadRejectsDeviceOnly ==
    (call.op = "download" /\ call.error # "exceeds" /\ TargetDeviceOnly) =>
        /\ call.status = "threw"
        /\ call.error = "NotHostVisible"
        /\ call.dest = <<>>

\* C17: for every image width and height above zero, calculateDispatchInfo with work
\* groups of 16 returns the width and the height divided by 16 and rounded up, and 1: the
\* groups cover the image, one group fewer would not.
C17_DispatchCoversImage ==
    pcall.op = "calculateDispatchInfo" =>
        /\ ~Less(Mul(pcall.info.groupCountX, WorkGroupSize), m_fractalImageWidth)
        /\ Less(Mul(pcall.info.groupCountX, WorkGroupSize),
                Add(m_fractalImageWidth, WorkGroupSize))
        /\ ~Less(Mul(pcall.info.groupCountY, WorkGroupSize), m_fractalImageHeight)
        /\ Less(Mul(pcall.info.groupCountY, WorkGroupSize),
                Add(m_fractalImageHeight, WorkGroupSize))
        /\ pcall.info.groupCountZ = Digits(1)

\* C18: dispatchFractalCompute on a pipeline that is not ready records nothing in the
\* command buffer, changes no state of the pipeline or the application, and returns.
C18_NotReadyDispatchIsNoOp ==
    [][(DispatchFractalCompute /\ ~m_fractalPipelineReady) =>
          /\ pcall'.status = "returned"
          /\ UNCHANGED <<frameVars, m_fractalImageWidth, m_fractalImageHeight,
                         m_fractalParameterBuffer, m_fractalOutputBuffer, m_shaders,
                         managed>>]_vars

\* a dispatch on a pipeline whose creation had failed
C18_Witness ==
    /\ pcall.op = "dispatchFractalCompute"
    /\ ~m_fractalPipelineReady
    /\ m_fractalImageWidth # <<>>
    /\ pcall.info = NoDispatchInfo

\* C19: after createFractalPipeline(width, height) returns true, the output buffer is in
\* device-local memory and its size is exactly width * height * 4 bytes, whatever 32-bit
\* width and height were passed.
C19_OutputBufferExact ==
    (pcall.op = "createFractalPipeline" /\ pcall.status = "true") =>
        /\ m_fractalOutputBuffer.size =
               Mul(Mul(m_fractalImageWidth, m_fractalImageHeight), sizeof_uint32_t)
        /\ BitAnd(m_memoryProperties[m_fractalOutputBuffer.memoryTypeIndex + 1],
                  VK_MEMORY_PROPERTY_DEVICE_LOCAL_BIT) # 0

\* C20: when a step of createFractalPipeline fails, the call returns false and the
\* pipeline is not ready afterwards.
C20_FailedCreateNotReady ==
    (pcall.op = "createFractalPipeline" /\ pcall.failed # "none") =>
        /\ pcall.status = "false"
        /\ ~m_fractalPipelineReady

\* a creation that failed on a pipeline an earlier call had made ready
C20_Witness ==
    /\ pcall.op = "createFractalPipeline"
    /\ pcall.failed = "createBuffer(fractal_parameters)"
    /\ "fractal_output" \in DOMAIN managed
    /\ ~m_fractalPipelineReady

(***************************************************************************)
(* TextureManager: createFractalTexture and cleanupTexture.  The           *)
(* repository holds two bodies of createFractalTexture: one that creates   *)
(* the image itself and one that goes through MemoryManager::createImage   *)
(* and createImageView; memoryManagerBuild says which one the build has.   *)
(***************************************************************************)
MaxObjects == 12

TextureDeviceCalls ==
    {"none", "vkCreateImage", "memoryType", "vkAllocateMemory", "vkBindImageMemory",
     "vkCreateImageView", "vkCreateSampler"}

\* what the device answers during one createFractalTexture: the call that reports an
\* error, and whether a failed create call cleared the handle it was to write (a failed
\* call leaves its output undefined)
TextureAnswers == [failing : TextureDeviceCalls, cleared : BOOLEAN]

\* a handle the device hands out: the next free one
NewObject(objects, kind, image) ==
    Append(objects, [kind |-> kind, image |-> image, live |-> TRUE])

\* vkDestroyImage, vkFreeMemory, vkDestroyImageView, vkDestroySampler
DestroyObject(objects, h) == [objects EXCEPT ![h].live = FALSE]

RECURSIVE DestroyObjects(_, _)
DestroyObjects(objects, hs) ==
    IF hs = <<>> THEN objects ELSE DestroyObjects(DestroyObject(objects, hs[1]), Tail(hs))

TextureState(status, image, memory, view, sampler, objects, ready) ==
    [status |-> status, m_textureImage |-> image, m_textureMemory |-> memory,
     m_textureImageView |-> view, m_textureSampler |-> sampler, devObjects |-> objects,
     m_textureReady |-> ready]

\* the handle a failed create call leaves in the variable it was to write
FailedOutput(dev, old) == IF dev.cleared THEN VK_NULL_HANDLE ELSE old

\* view and sampler creation at the end of createFractalTexture, with image img and
\* memory mem created and objects the device state; the view creation of the
\* MemoryManager build throws from createImageView
createViewAndSampler(dev, img, mem, objects) ==
    LET view == Len(objects) + 1
        withView == NewObject(objects, "view", img)
        sampler == view + 1
    IN
    IF dev.failing = "vkCreateImageView"
    THEN IF memoryManagerBuild
         THEN TextureState("threw", img, mem, m_textureImageView, m_textureSampler,
                           objects, m_textureReady)
         ELSE TextureState("false", VK_NULL_HANDLE, VK_NULL_HANDLE,
                           FailedOutput(dev, m_textureImageView), m_textureSampler,
                           DestroyObjects(objects, <<mem, img>>), m_textureReady)
    ELSE IF dev.failing = "vkCreateSampler"
    THEN TextureState("false", VK_NULL_HANDLE, VK_NULL_HANDLE, VK_NULL_HANDLE,
                      FailedOutput(dev, m_textureSampler),
                      DestroyObjects(withView, <<view, mem, img>>), m_textureReady)
    ELSE TextureState("true", img, mem, view, sampler,
                      NewObject(withView, "sampler", VK_NULL_HANDLE), TRUE)

\* createFractalTexture of the body that creates the image itself
createFractalTextureInline(dev) ==
    LET img == Len(devObjects) + 1
        withImage == NewObject(devObjects, "image", img)
        mem == img + 1
        failed(image, memory, objects) ==
            TextureState("false", image, memory, m_textureImageView, m_textureSampler,
                         objects, m_textureReady)
    IN
    IF dev.failing = "vkCreateImage"
    THEN failed(FailedOutput(dev, m_textureImage), m_textureMemory, devObjects)
    ELSE IF dev.failing = "memoryType"
    THEN failed(VK_NULL_HANDLE, m_textureMemory, DestroyObject(withImage, img))
    ELSE IF dev.failing = "vkAllocateMemory"
    THEN failed(VK_NULL_HANDLE, FailedOutput(dev, m_textureMemory),
                DestroyObject(withImage, img))
    ELSE IF dev.failing = "vkBindImageMemory"
    THEN failed(VK_NULL_HANDLE, VK_NULL_HANDLE,
                DestroyObjects(NewObject(withImage, "memory", VK_NULL_HANDLE), <<mem, img>>))
    ELSE createViewAndSampler(dev, img, mem, NewObject(withImage, "memory", img))

\* createFractalTexture of the body that calls MemoryManager::createImage, which writes
\* the image and memory handles through references and ignores vkBindImageMemory's result
createFractalTextureManaged(dev) ==
    LET img == Len(devObjects) + 1
        withImage == NewObject(devObjects, "image", img)
        mem == img + 1
        failed(image, memory, objects) ==
            TextureState("false", image, memory, m_textureImageView, m_textureSampler,
                         objects, m_textureReady)
    IN
    IF dev.failing = "vkCreateImage"
    THEN failed(FailedOutput(dev, m_textureImage), m_textureMemory, devObjects)
    ELSE IF dev.failing = "memoryType"
    THEN failed(img, m_textureMemory, DestroyObject(withImage, img))
    ELSE IF dev.failing = "vkAllocateMemory"
    THEN failed(img, FailedOutput(dev, m_textureMemory), DestroyObject(withImage, img))
    ELSE createViewAndSampler(
             dev, img, mem,
             NewObject(withImage, "memory",
                       IF dev.failing = "vkBindImageMemory" THEN VK_NULL_HANDLE ELSE img))

createFractalTexture(dev) ==
    IF memoryManagerBuild
    THEN createFractalTextureManaged(dev)
    ELSE createFractalTextureInline(dev)

CreateFractalTexture ==
    /\ Len(devObjects) + 4 <= MaxObjects
    /\ \E dev \in TextureAnswers :
         \E r \in {createFractalTexture(dev)} :
            /\ m_textureImage' = r.m_textureImage
            /\ m_textureMemory' = r.m_textureMemory
            /\ m_textureImageView' = r.m_textureImageView
            /\ m_textureSampler' = r.m_textureSampler
            /\ devObjects' = r.devObjects
            /\ m_textureReady' = r.m_textureReady
            /\ tcall' = [op |-> "createFractalTexture", status |-> r.status,
                         failing |-> dev.failing, destroyedDead |-> {}]
    /\ UNCHANGED memoryManagerBuild

\* the handles the four members hold
TextureHandles(image, memory, view, sampler) ==
    {image, memory, view, sampler} \ {VK_NULL_HANDLE}

\* cleanupTexture: every member that is not null is destroyed and set to null
CleanupTexture ==
    LET held == TextureHandles(m_textureImage, m_textureMemory, m_textureImageView,
                               m_textureSampler)
    IN  /\ devObjects' = [h \in DOMAIN devObjects |->
                             IF h \in held THEN [devObjects[h] EXCEPT !.live = FALSE]
                             ELSE devObjects[h]]
        /\ m_textureImage' = VK_NULL_HANDLE
        /\ m_textureMemory' = VK_NULL_HANDLE
        /\ m_textureImageView' = VK_NULL_HANDLE
        /\ m_textureSampler' = VK_NULL_HANDLE
        /\ m_textureReady' = FALSE
        /\ tcall' = [op |-> "cleanupTexture", status |-> "returned", failing |-> "none",
                     destroyedDead |-> {h \in held : ~devObjects[h].live}]
        /\ UNCHANGED memoryManagerBuild

TextureInit ==
    /\ pc = "stopped"
    /\ splitQueues = FALSE
    /\ m_fractalPipelineReady = TRUE
    /\ m_textureReady = FALSE
    /\ m_pipelineReady = TRUE
    /\ m_computeCommandBuffer = <<>>
    /\ m_graphicsCommandBuffers = [i \in 1..MaxImages |-> <<>>]
    /\ imageIndex = 1
    /\ queues = [q \in QueueNames |-> <<>>]
    /\ imageLayout = LAYOUT_UNDEFINED
    /\ steps = <<>>
    /\ frameCount = 0
    /\ lastFrame = "none"
    /\ m_isRunning = FALSE
    /\ destroyed = <<>>
    /\ LayoutIdle /\ ShaderIdle /\ ReloadIdle /\ FindIdle /\ MemIdle /\ XferIdle /\ PipeIdle
    /\ memoryManagerBuild \in BOOLEAN
    /\ m_textureImage = VK_NULL_HANDLE
    /\ m_textureMemory = VK_NULL_HANDLE
    /\ m_textureImageView = VK_NULL_HANDLE
    /\ m_textureSampler = VK_NULL_HANDLE
    /\ devObjects = <<>>
    /\ tcall = [op |-> "none"]

TextureOnly ==
    UNCHANGED <<layoutVars, findVars, memVars, xferVars, pipeVars, shaderVars,
                reloadVars, teardownVars,
                m_isRunning, destroyed, pc, splitQueues, m_fractalPipelineReady,
                m_pipelineReady, m_computeCommandBuffer, m_graphicsCommandBuffers,
                imageIndex, queues, imageLayout, steps, frameCount, lastFrame>>

TextureNext ==
    \/ CreateFractalTexture /\ TextureOnly
    \/ CleanupTexture /\ TextureOnly

SpecTexture == TextureInit /\ [][TextureNext]_vars

LiveObject(objects, h) == h \in DOMAIN objects /\ objects[h].live

\* C37: in every state reachable by createFractalTexture (succeeding or failing at any
\* step) and cleanupTexture calls, isTextureReady() implies that the image, its memory,
\* its view and its sampler are all non-null, live, and belong to the same texture: the
\* memory is bound to the image and the view is a view of it.
C37_ReadyTextureIsWhole ==
    m_textureReady =>
        /\ LiveObject(devObjects, m_textureImage)
        /\ LiveObject(devObjects, m_textureMemory)
        /\ LiveObject(devObjects, m_textureImageView)
        /\ LiveObject(devObjects, m_textureSampler)
        /\ devObjects[m_textureMemory].image = m_textureImage
        /\ devObjects[m_textureImageView].image = m_textureImage

\* C38: whenever createFractalTexture fails at any step it returns false without
\* raising, every object the device created during the call has been destroyed, every
\* object a member held before the call is still live and still held, and no member
\* holds a handle of a destroyed object.
C38_FailedCreateLeavesNothingBehind ==
    [][(CreateFractalTexture /\ tcall'.status # "true") =>
          /\ tcall'.status = "false"
          /\ \A h \in (Len(devObjects) + 1)..Len(devObjects') : ~devObjects'[h].live
          /\ \A h \in TextureHandles(m_textureImage, m_textureMemory, m_textureImageView,
                                     m_textureSampler) :
                devObjects[h].live =>
                    /\ devObjects'[h].live
                    /\ h \in TextureHandles(m_textureImage', m_textureMemory',
                                            m_textureImageView', m_textureSampler')
          /\ \A h \in TextureHandles(m_textureImage', m_textureMemory',
                                     m_textureImageView', m_textureSampler') :
                devObjects'[h].live]_vars

(***************************************************************************)
(* ShaderManager: the shader cache and hot reload.                         *)
(***************************************************************************)
MaxModTime == 3

ReloadNames == {"mandelbrot", "fullscreen_vertex"}

\* a shader file: readable with source that compiles, readable with source that does not
\* compile, or not accessible
FileStates == {"ok", "broken", "unreadable"}

\* compileShader(name, source): the cached entry if there is one; otherwise the source is
\* compiled and cached, and a source that does not compile makes it throw
compileShader(cache, name, file) ==
    IF name \in DOMAIN cache
    THEN [status |-> "returned", cache |-> cache]
    ELSE IF file.state = "broken"
    THEN [status |-> "threw", cache |-> cache]
    ELSE [status |-> "returned", cache |-> cache @@ (name :> file.modTime)]

\* removeShader(name): the module is destroyed and the entry erased
removeShader(cache, name) == [n \in DOMAIN cache \ {name} |-> cache[n]]

\* loadShaderFromFile(name, path): readFile, then compileShader
LoadShaderFromFile ==
    \E name \in ReloadNames :
        /\ \E r \in {IF shaderFiles[name].state = "unreadable"
                     THEN [status |-> "threw", cache |-> moduleOf]
                     ELSE compileShader(moduleOf, name, shaderFiles[name])} :
              /\ moduleOf' = r.cache
              /\ rcall' = [op |-> "loadShaderFromFile", name |-> name,
                           status |-> r.status, recompiled |-> {}]
        /\ m_shaders' = DOMAIN moduleOf'
        /\ UNCHANGED <<m_hotReloadShaders, shaderFiles>>

\* enableHotReload(name, path)
EnableHotReload ==
    \E name \in ReloadNames :
        /\ IF name \notin DOMAIN moduleOf \/ shaderFiles[name].state = "unreadable"
           THEN /\ rcall' = [op |-> "enableHotReload", name |-> name, status |-> "false",
                             recompiled |-> {}]
                /\ UNCHANGED m_hotReloadShaders
           ELSE /\ rcall' = [op |-> "enableHotReload", name |-> name, status |-> "true",
                             recompiled |-> {}]
                /\ m_hotReloadShaders' =
                       [n \in DOMAIN m_hotReloadShaders \cup {name} |->
                           IF n = name THEN shaderFiles[name].modTime
                           ELSE m_hotReloadShaders[n]]
        /\ UNCHANGED <<m_shaders, moduleOf, shaderFiles>>

\* somebody saves a shader file, or makes it inaccessible
EditFile ==
    \E name \in ReloadNames, state \in FileStates :
        /\ shaderFiles[name].modTime < MaxModTime
        /\ shaderFiles' = [shaderFiles EXCEPT
                              ![name] = [modTime |-> @.modTime + 1, state |-> state]]
        /\ rcall' = [op |-> "edit", name |-> name, status |-> state, recompiled |-> {}]
        /\ UNCHANGED <<m_shaders, moduleOf, m_hotReloadShaders>>

\* one iteration of the loop of checkForUpdates, for the watched shader name
checkOne(cache, name) ==
    LET file == shaderFiles[name]
        unchanged == [cache |-> cache, lastModTime |-> m_hotReloadShaders[name],
                      recompiled |-> FALSE]
    IN
    IF file.state = "unreadable" THEN unchanged
    ELSE IF ~(file.modTime > m_hotReloadShaders[name]) THEN unchanged
    ELSE LET r == compileShader(removeShader(cache, name), name, file)
         IN  IF r.status = "threw"
             THEN [cache |-> r.cache, lastModTime |-> m_hotReloadShaders[name],
                   recompiled |-> FALSE]
             ELSE [cache |-> r.cache, lastModTime |-> file.modTime, recompiled |-> TRUE]

\* checkForUpdates: every watched shader in turn; one iteration touches only the cache
\* entry and the record of its own name
CheckForUpdates ==
    /\ moduleOf' = [n \in {x \in DOMAIN moduleOf \cup DOMAIN m_hotReloadShaders :
                              IF x \in DOMAIN m_hotReloadShaders
                              THEN x \in DOMAIN checkOne(moduleOf, x).cache
                              ELSE TRUE} |->
                      IF n \in DOMAIN m_hotReloadShaders
                      THEN checkOne(moduleOf, n).cache[n]
                      ELSE moduleOf[n]]
    /\ m_shaders' = DOMAIN moduleOf'
    /\ m_hotReloadShaders' =
           [n \in DOMAIN m_hotReloadShaders |-> checkOne(moduleOf, n).lastModTime]
    /\ rcall' = [op |-> "checkForUpdates", name |-> "", status |-> "returned",
                 recompiled |-> {n \in DOMAIN m_hotReloadShaders :
                                    checkOne(moduleOf, n).recompiled}]
    /\ UNCHANGED shaderFiles

ReloadInit ==
    /\ FrameIdle /\ LayoutIdle /\ ShaderIdle /\ TextureIdle /\ FindIdle /\ MemIdle
    /\ XferIdle /\ PipeIdle
    /\ m_hotReloadShaders = <<>>
    /\ shaderFiles \in [ReloadNames -> [modTime : {1}, state : FileStates]]
    /\ moduleOf = <<>>
    /\ rcall = [op |-> "none"]
    /\ gpuDestroyed = <<>>

ReloadOnly ==
    UNCHANGED <<frameVars, layoutVars, findVars, memVars, xferVars, shaderVars, textureVars,
                teardownVars, m_fractalImageWidth, m_fractalImageHeight,
                m_fractalParameterBuffer, m_fractalOutputBuffer, managed, pcall>>

ReloadNext ==
    \/ LoadShaderFromFile /\ ReloadOnly
    \/ EnableHotReload /\ ReloadOnly
    \/ EditFile /\ ReloadOnly
    \/ CheckForUpdates /\ ReloadOnly

SpecReload == ReloadInit /\ [][ReloadNext]_vars

\* C40: after checkForUpdates returns, every shader name that was cached and registered
\* for hot reload before the call is still cached, with its previous module or a freshly
\* compiled one, also when the changed file fails to read or to compile.
C40_WatchedShadersStayCached ==
    [][CheckForUpdates =>
          \A name \in DOMAIN moduleOf \cap DOMAIN m_hotReloadShaders :
              /\ name \in DOMAIN moduleOf'
              /\ name \in m_shaders'
              /\ moduleOf'[name] \in {moduleOf[name], shaderFiles[name].modTime}]_vars

====
